---- MODULE Spec2Model ----
(***************************************************************************)
(* Monitoring and sync engine of 123subscribe (src/main.py).               *)
(*                                                                         *)
(* The model follows Cloud123Monitor: monitor_all fans the configured      *)
(* shares out to per-share units (_monitor_share_link), sequentially or    *)
(* through a thread pool; each unit lists the share, diffs the listing     *)
(* against its record of monitor_state, transfers the delta file by file   *)
(* and commits after every successful transfer (in-memory write under      *)
(* monitor_state_lock, then _save_monitor_state, which rewrites the whole  *)
(* state file).  The process may be killed at any point and started again  *)
(* (__init__ reloads the state file).                                      *)
(*                                                                         *)
(* The scheduler (src/scheduler) is the variable sched: TaskScheduler's    *)
(* registry and running flag, the job list of the schedule module it       *)
(* drives, the threads running _run_scheduler, SchedulerManager's flag and *)
(* mapping, TaskMonitor's status and history, and the API calls in         *)
(* progress.  The schedule module is a third-party library: its Job and    *)
(* run_pending are modelled by what the library does (a job is due when    *)
(* its countdown is 0; run_pending lists the due jobs and runs them in     *)
(* turn; a job that ran gets its full interval again).                     *)
(*                                                                         *)
(* The variable mon is one TaskMonitor (src/scheduler/monitor.py) followed *)
(* in full: status dicts, history records with their details payloads and  *)
(* the identity of the details dicts, and get_recent_history.  The         *)
(* variable ctl is the control plane (src/app.py): the configuration file, *)
(* update_config step by step, remove_monitored_share, and the share key   *)
(* each place derives for one configuration entry.                         *)
(***************************************************************************)
EXTENDS Integers, Sequences, FiniteSets, TLC

\* ---------------------------------------------------------------- bounds
\* Number of files in the remote listing of every share.
NumFiles == 2

\* ------------------------------------------------------- inputs / domains
\* The share keys ("{share_id}_{pwd or 'no_pwd'}") of the shares that can be configured.
AllShares == <<"A", "B", "C">>

Shares == {AllShares[i] : i \in DOMAIN AllShares}

\* What one entry of config['monitored_shares'] can look like:
\* a usable entry, enabled = false, an entry without url / target_folder_id,
\* an entry whose url parse_share_link rejects.
ConfigKinds == {"ok", "disabled", "nofield", "badurl"}

ShareConfig(k, kind) == [key |-> k, kind |-> kind]

\* Every configuration that lists each share once, in order.
Configs == {[i \in DOMAIN AllShares |-> ShareConfig(AllShares[i], kinds[i])] : kinds \in [DOMAIN AllShares -> ConfigKinds]}

\* The configurations with one share.
SingleConfigs == {<<ShareConfig(AllShares[1], "ok")>>}

\* sync.thread_pool_size: 0 sequential, -1 no limit, N > 0 pool of N workers.
PoolSizes == {-1, 0, 1, 2}

\* The thread check_single_share starts.
ManualUnits == {0}

\* Unit i > 0 is the unit monitor_all starts for position i of the configuration.
Units == DOMAIN AllShares \cup ManualUnits

OldMd5 == "old"

NewMd5 == "new"

\* One descriptor as get_file_list builds it (type 0: a file).  Time values are
\* abstracted to their presence: synced_at tells whether the key is set.
FileInfo(p, m) == [path |-> p, md5 |-> m, type |-> 0, synced_at |-> FALSE]

\* The listing the remote service returns for a share: NumFiles files for the
\* first share, one file for the second, none for the others.
Remote(k) ==
    IF k = AllShares[1] THEN [i \in 1..NumFiles |-> FileInfo(i, NewMd5)]
    ELSE IF k = AllShares[2] THEN <<FileInfo(1, NewMd5)>>
    ELSE <<>>

\* monitor_state.get(share_key, {}) when the key is absent.  last_sync_time
\* tells whether the key is set; last_monitor_time, rewritten with the current
\* time by every write, is not represented.
NoRecord == [present |-> FALSE, last_sync_time |-> FALSE, files |-> <<>>, last_synced_files_count |-> 0]

EmptyState == [k \in Shares |-> NoRecord]

\* A state left by an earlier run: the first share has file 1 recorded with an old md5.
OldState == [k \in Shares |-> IF k = AllShares[1] THEN [present |-> TRUE, last_sync_time |-> TRUE, files |-> <<[path |-> 1, md5 |-> OldMd5, type |-> 0, synced_at |-> TRUE]>>, last_synced_files_count |-> 1] ELSE NoRecord]

VARIABLES
    config,          \* self.config['monitored_shares']
    monitor_state,   \* self.monitor_state: share key -> record
    state_file,      \* conf/monitor_state.json: [ok, data]; ok = FALSE: truncated / malformed
    lock,            \* holders of self.monitor_state_lock (at most one)
    run,             \* the monitor_all execution in progress: [pc, workers, pos]
    unit,            \* per unit: position in _monitor_share_link and its locals
    crashSnap,       \* history: per share, what the unit killed between two commits had done
    sync,            \* the FileSyncer.sync_file call in progress: its arguments, loop position and effects
    cmp,             \* the FileComparator.get_files_to_sync call under study: arguments and results
    sched,           \* the scheduler: TaskScheduler, SchedulerManager and TaskMonitor fields, the schedule
                     \* module's job list, the polling threads and the API calls in progress
    mon,             \* the TaskMonitor under study: its status and history dicts in full, the
                     \* configured max_history and the last get_recent_history call
    ctl              \* the control plane (app.py): conf/config.yaml, the request in progress, and
                     \* the share key derivations under study

vars == <<config, monitor_state, state_file, lock, run, unit, crashSnap, sync, cmp, sched, mon, ctl>>

NoUnit == [pc |-> "none", key |-> AllShares[1], file_list |-> <<>>, snap |-> NoRecord, delta |-> <<>>, idx |-> 0, success_count |-> 0, file_map |-> <<>>, outcomes |-> <<>>]

NoSnap == [valid |-> FALSE, done |-> <<>>, todo |-> <<>>]

Terminal == {"done", "skipped", "failed", "raised"}

\* Units started by monitor_all, one per position of the configuration.
RunUnits == DOMAIN config

\* A unit that has been started and has not ended.
Running(u) == unit[u].pc \notin (Terminal \cup {"none", "queued"})

\* ------------------------------------------------------- pure functions
HasPath(m, p) == \E i \in DOMAIN m : m[i].path = p

Lookup(m, p) == m[CHOOSE i \in DOMAIN m : m[i].path = p]

\* d[path] = e on an insertion-ordered dict: replace in place, else append.
DictPut(m, e) == IF HasPath(m, e.path) THEN [i \in DOMAIN m |-> IF m[i].path = e.path THEN e ELSE m[i]] ELSE Append(m, e)

RECURSIVE DictFromList(_)
\* {file_info.get('path', ''): file_info for file_info in files}, as list(d.values()).
DictFromList(l) == IF l = <<>> THEN <<>> ELSE DictPut(DictFromList(SubSeq(l, 1, Len(l) - 1)), l[Len(l)])

\* Mutant of get_files_to_sync: entries of type 1 (folders) are not skipped.
get_files_to_sync_KeepsDirs(source_files, target_files) ==
    LET target_file_map == DictFromList(target_files)
        Needed(f) == \/ ~HasPath(target_file_map, f.path)
                     \/ f.md5 # Lookup(target_file_map, f.path).md5
    IN SelectSeq(source_files, Needed)

\* Mutant of get_files_to_sync: a file without md5 always counts as changed.
get_files_to_sync_EmptyDiffers(source_files, target_files) ==
    LET target_file_map == DictFromList(target_files)
        Needed(f) == /\ f.type # 1
                     /\ \/ ~HasPath(target_file_map, f.path)
                        \/ f.md5 = ""
                        \/ f.md5 # Lookup(target_file_map, f.path).md5
    IN SelectSeq(source_files, Needed)

\* FileComparator.get_files_to_sync.
get_files_to_sync(source_files, target_files) ==
    LET target_file_map == DictFromList(target_files)
        Needed(f) == /\ f.type # 1
                     /\ \/ ~HasPath(target_file_map, f.path)
                        \/ f.md5 # Lookup(target_file_map, f.path).md5
    IN SelectSeq(source_files, Needed)

\* _load_monitor_state: a missing or malformed file is the empty state.
load_monitor_state(f) == IF f.ok THEN f.data ELSE EmptyState

\* ------------------------------------------------------------------ Init
\* No sync_file call in progress.
NoMsg == [kind |-> "unset", attempt |-> 0]

NoError == [type |-> "none", attempts |-> 0, detail |-> NoMsg]

NoSync == [pc |-> "idle", via |-> "none", max_retries |-> 0, retries |-> 0, file_id |-> "", share_id |-> "",
           attempt |-> 0, log |-> <<>>, waits |-> <<>>, error_msg |-> NoMsg, error |-> NoError]

\* No get_files_to_sync call under study.
NoCmp == [pc |-> "none", source_files |-> <<>>, target_files |-> <<>>, result |-> <<>>, again |-> <<>>]

\* ------------------------------------------------------- scheduler: data
\* Task ids: "t1" stands for 'monitor_all_shares', the one id main.py registers.
TaskIds == {"t1", "t2"}

\* interval_seconds of a registration, in seconds.
Intervals == {1, 2}

\* Polling threads that can be alive at once (the one of the current start and
\* one of an earlier start that did not end yet).
PollThreads == {1, 2}

\* Invocations followed in one behaviour of a scheduler left to poll.
MaxFires == 3

\* Invocations followed in one behaviour with API calls beside the polling.
MaxCallFires == 2

\* Invocations followed in one behaviour with two threads calling the API.
MaxRaceFires == 1

\* Threads calling the scheduler API (the Flask handlers and the backend thread).
Callers == {1, 2}

\* A polling thread that does not exist (never started, or ended).
NoPoll == [pc |-> "none", due |-> <<>>, cur |-> [job |-> 0, id |-> "t1"], raises |-> FALSE]

\* No API call made yet by a caller.
NoCall == [op |-> "none", pc |-> "idle", id |-> "t1", n |-> 1, func |-> "", result |-> "none"]

\* SchedulerManager.__init__, TaskScheduler.__init__, TaskMonitor.__init__ and
\* the schedule module just imported: nothing registered, nothing running.
NoSched ==
    [running |-> FALSE,                       \* TaskScheduler.running
     mrunning |-> FALSE,                      \* SchedulerManager.running
     thread |-> 0,                            \* TaskScheduler.scheduler_thread (0: None)
     jobs |-> <<>>,                           \* TaskScheduler.jobs: job_info dicts
     lib |-> <<>>,                            \* schedule.jobs: Job objects with the seconds left to next_run
     poll |-> [t \in PollThreads |-> NoPoll], \* the threads running _run_scheduler
     task_mapping |-> {},                     \* SchedulerManager.task_mapping
     task_status |-> [i \in TaskIds |-> "none"], \* TaskMonitor.task_status[i]['status']
     task_history |-> <<>>,                   \* TaskMonitor.task_history
     fired |-> 0,                             \* history: invocations run_pending collected so far
     stopped |-> FALSE,                       \* history: TaskScheduler.stop() went through and no start followed
     calls |-> [c \in Callers |-> NoCall]]

\* ------------------------------------------------- TaskMonitor: data
\* The bound of task_history, written in complete_task (monitor.py line 75).
HistoryCap == 1000

\* scheduler.max_history of the configuration: the default (config_manager.py
\* line 133) or a smaller value set by the user.
ConfiguredMax == {2, 1000}

\* The keys of a details payload, and the values a key can have ("none": the
\* key is absent).
DetailKeys == {"k"}

Payloads == [DetailKeys -> {"none", "a", "b"}]

\* The empty dict.
EmptyDetails == [k \in DetailKeys |-> "none"]

\* task_status has no entry for a task id.
NoTask == [status |-> "none", success |-> "none", error |-> "", details |-> EmptyDetails]

\* The last call was not get_recent_history.
NoQuery == [limit |-> -1, result |-> <<>>]

\* TaskMonitor.__init__ (monitor.py 7-11): no status, no history.  A history
\* record is the dict complete_task appended: task_id, end_time (the ordinal
\* of the completion), success, error, details; shared tells whether its
\* details dict is still the object task_status[task_id]['details'], and
\* final is the details it had when complete_task appended it.
NoMon(max) ==
    [max_history |-> max,
     task_status |-> [i \in TaskIds |-> NoTask],
     task_history |-> <<>>,
     now |-> 0,
     query |-> NoQuery]

\* ----------------------------------------------- control plane: data
\* The most parameters in the query string of a share address.
MaxParams == 2

\* A share address as the two regular expressions of parse_share_link read
\* it: scheme://host/s/{share_id}?name=value&name=value.
Schemes == {"https", "ftp"}

LinkIds == {"", "s1"}

Params == [name : {"pwd", "from"}, value : {"", "p1", "p2"}]

Queries == UNION {[1..n -> Params] : n \in 0..MaxParams}

Urls == [scheme : Schemes, share_id : LinkIds, query : Queries]

\* The password key of a configuration entry: absent, empty, or set.
Passwords == {"absent", "", "u1"}

\* The entries of monitored_shares whose share key is derived.
Entries == [url : Urls, password : Passwords]

NoEntry == [url |-> [scheme |-> "https", share_id |-> "", query |-> <<>>], password |-> "absent"]

\* The places that derive a share key: _monitor_share_link,
\* remove_monitored_share, update_config.
Sites == {"tick", "remove", "cleanup"}

\* No share key derived.
NoKey == [share_id |-> "", secret |-> ""]

\* app.py at start: conf/config.yaml is what the monitor loaded, no request in
\* progress.
NoCtl(cfg) ==
    [pc |-> "idle",                       \* position of update_config
     config_file |-> cfg,                 \* monitored_shares of conf/config.yaml
     state |-> EmptyState,                \* update_config's local monitor_state
     last |-> "none",                     \* outcome of the last request
     share |-> NoEntry,                   \* the entry whose share key is derived
     keys |-> [x \in Sites |-> NoKey],    \* the share key each place derived
     done |-> {}]                         \* the places that ran

\* Cloud123Monitor.__init__: the configuration, the state loaded from the
\* state file, the lock free, nothing running.
TickInit(configs) ==
    /\ config \in configs
    /\ \E s \in {EmptyState, OldState} :
          /\ state_file = [ok |-> TRUE, data |-> s]
          /\ monitor_state = s
    /\ lock = {}
    /\ run = [pc |-> "idle", workers |-> 0, pos |-> 0]
    /\ unit = [u \in Units |-> NoUnit]
    /\ crashSnap = [k \in Shares |-> NoSnap]

InitWith(configs) ==
    /\ TickInit(configs)
    /\ sync = NoSync
    /\ cmp = NoCmp
    /\ sched = NoSched
    /\ mon = NoMon(HistoryCap)
    /\ ctl = NoCtl(config)

\* main.py once: one process, one monitor_all over the configured shares.
Init == InitWith(Configs)

\* -------------------------------------------------- monitor_all: fan-out
\* The worker threads ThreadPoolExecutor(max_workers) runs for the submitted
\* shares: one per submission up to max_workers = thread_pool_size; max_workers
\* is None for thread_pool_size = -1 (the executor's own default,
\* min(32, cpu + 4), exceeds the number of shares).
MaxWorkers(size) == IF size = -1 \/ size > Len(config) THEN Len(config) ELSE size

\* monitor_all, lines 359-377: the sequential loop is at iteration run.pos,
\* or every share has been submitted to the executor.
monitor_all_start ==
    /\ run.pc = "idle"
    /\ \E n \in PoolSizes :
          IF n = 0
          THEN /\ run' = [pc |-> "seq", workers |-> 1, pos |-> 1]
               /\ unit' = [u \in Units |-> IF u \in RunUnits THEN NoUnit ELSE unit[u]]
          ELSE /\ run' = [pc |-> "pool", workers |-> MaxWorkers(n), pos |-> 0]
               /\ unit' = [u \in Units |-> IF u \in RunUnits THEN [NoUnit EXCEPT !.pc = "queued", !.key = config[u].key] ELSE unit[u]]
    /\ UNCHANGED <<ctl, mon, sched, sync, cmp, config, monitor_state, state_file, lock, crashSnap>>

\* Mutant of CanStart: the executor starts every submission at once, whatever max_workers.
CanStart_NoCap(u) ==
    /\ u \in RunUnits
    /\ \/ /\ run.pc = "seq"
          /\ run.pos = u
          /\ unit[u].pc = "none"
       \/ /\ run.pc = "pool"
          /\ unit[u].pc = "queued"

\* When monitor_all lets the unit of position u begin: the loop has reached
\* it, or a worker is free and every earlier submission has been taken.
CanStart(u) ==
    /\ u \in RunUnits
    /\ \/ /\ run.pc = "seq"
          /\ run.pos = u
          /\ unit[u].pc = "none"
       \/ /\ run.pc = "pool"
          /\ unit[u].pc = "queued"
          /\ \A j \in RunUnits : j < u => unit[j].pc # "queued"
          /\ Cardinality({v \in RunUnits : Running(v)}) < run.workers

\* _monitor_share_link, lines 249-261: enabled check, required fields, link parsing.
\* Mutant of Enter: the enabled flag is not consulted; a disabled share is processed.
Enter_IgnoresEnabled(u, k, kind) ==
    unit' = [unit EXCEPT ![u] = [NoUnit EXCEPT !.key = k,
                                  !.pc = CASE kind = "nofield" -> "raised"
                                           [] kind = "badurl" -> "failed"
                                           [] OTHER -> "listing"]]

Enter(u, k, kind) ==
    unit' = [unit EXCEPT ![u] = [NoUnit EXCEPT !.key = k,
                                  !.pc = CASE kind = "disabled" -> "skipped"
                                           [] kind = "nofield" -> "raised"
                                           [] kind = "badurl" -> "failed"
                                           [] OTHER -> "listing"]]

monitor_share_link(u) ==
    /\ CanStart(u)
    /\ Enter(u, config[u].key, config[u].kind)
    /\ UNCHANGED <<ctl, mon, sched, sync, cmp, config, monitor_state, state_file, lock, run, crashSnap>>

\* share_handler.get_file_list (line 276): the listing, or a ShareLinkError
\* that the unit's own handler (lines 341-344) catches.
get_file_list_of(u, listing) ==
    /\ unit[u].pc = "listing"
    /\ \E ok \in BOOLEAN :
          unit' = [unit EXCEPT ![u] = IF ok THEN [@ EXCEPT !.pc = "rlock", !.file_list = listing]
                                           ELSE [@ EXCEPT !.pc = "failed"]]
    /\ UNCHANGED <<ctl, mon, sched, sync, cmp, config, monitor_state, state_file, lock, run, crashSnap>>

\* The remote service returns the listing of the unit's share.
get_file_list(u) == get_file_list_of(u, Remote(unit[u].key))

\* Mutant of read_state: the lock taken for the read is kept (the rest of the
\* unit runs inside the with block).
read_state_KeepsLock(u) ==
    /\ unit[u].pc = "rlock"
    /\ lock = {}
    /\ lock' = {u}
    /\ unit' = [unit EXCEPT ![u] = [@ EXCEPT !.pc = "diff", !.snap = monitor_state[unit[u].key]]]
    /\ UNCHANGED <<ctl, mon, sched, sync, cmp, config, monitor_state, state_file, run, crashSnap>>

\* Lines 279-280: with monitor_state_lock: monitor_state = self.monitor_state.get(share_key, {}).
read_state(u) ==
    /\ unit[u].pc = "rlock"
    /\ lock = {}
    /\ unit' = [unit EXCEPT ![u] = [@ EXCEPT !.pc = "diff", !.snap = monitor_state[unit[u].key]]]
    /\ UNCHANGED <<ctl, mon, sched, sync, cmp, config, monitor_state, state_file, lock, run, crashSnap>>

\* Lines 283-293: the delta, and the path -> file map of the files already known.
diff(u) ==
    /\ unit[u].pc = "diff"
    /\ LET updated_files == get_files_to_sync(unit[u].file_list, unit[u].snap.files)
       IN unit' = [unit EXCEPT ![u] =
                     IF updated_files # <<>>
                     THEN [@ EXCEPT !.pc = "transfer", !.delta = updated_files, !.idx = 1,
                                    !.success_count = 0, !.file_map = DictFromList(unit[u].snap.files)]
                     ELSE [@ EXCEPT !.pc = "ilock"]]
    /\ UNCHANGED <<ctl, mon, sched, sync, cmp, config, monitor_state, state_file, lock, run, crashSnap>>

\* The for loop of line 295 moves to the next file of the delta, or ends.
NextFile(r) == IF r.idx < Len(r.delta) THEN [r EXCEPT !.pc = "transfer", !.idx = r.idx + 1] ELSE [r EXCEPT !.pc = "done"]

\* Line 297: _transfer_file is called for updated_files[idx].
transfer_file_begin(u) ==
    /\ unit[u].pc = "transfer"
    /\ unit' = [unit EXCEPT ![u] = [@ EXCEPT !.pc = "inflight"]]
    /\ UNCHANGED <<ctl, mon, sched, sync, cmp, config, monitor_state, state_file, lock, run, crashSnap>>

\* Mutant of TransferSucceeded: the file is put in the map but the state is
\* not written and saved per file (the commit is left to the end of the tick).
TransferSucceeded_Batched(r) ==
    NextFile([r EXCEPT !.success_count = r.success_count + 1,
                       !.file_map = DictPut(r.file_map, [r.delta[r.idx] EXCEPT !.synced_at = TRUE]),
                       !.outcomes = Append(r.outcomes, "ok")])

\* Lines 298-307 when sync_file returned: count, stamp synced_at, update the map.
TransferSucceeded(r) ==
    [r EXCEPT !.pc = "wlock",
              !.success_count = r.success_count + 1,
              !.file_map = DictPut(r.file_map, [r.delta[r.idx] EXCEPT !.synced_at = TRUE]),
              !.outcomes = Append(r.outcomes, "ok")]

\* Mutant of TransferFailed: the failed file is recorded like a transferred one.
TransferFailed_Records(r) ==
    [r EXCEPT !.pc = "wlock",
              !.file_map = DictPut(r.file_map, [r.delta[r.idx] EXCEPT !.synced_at = TRUE]),
              !.outcomes = Append(r.outcomes, "fail")]

\* Mutant of TransferFailed: the error ends the loop over the delta.
TransferFailed_Aborts(r) == [r EXCEPT !.pc = "done", !.outcomes = Append(r.outcomes, "fail")]

\* Lines 319-321 when sync_file raised: log and continue with the next file.
TransferFailed(r) == NextFile([r EXCEPT !.outcomes = Append(r.outcomes, "fail")])

\* _transfer_file returns (sync_file succeeded) or raises (every attempt failed).
transfer_file_end(u) ==
    /\ unit[u].pc = "inflight"
    /\ \E ok \in BOOLEAN :
          unit' = [unit EXCEPT ![u] = IF ok THEN TransferSucceeded(@) ELSE TransferFailed(@)]
    /\ UNCHANGED <<ctl, mon, sched, sync, cmp, config, monitor_state, state_file, lock, run, crashSnap>>

\* Lines 310-316: the record written after a successful transfer.
CommitRecord(r) == [present |-> TRUE, last_sync_time |-> TRUE, files |-> r.file_map, last_synced_files_count |-> r.success_count]

write_state(u) ==
    /\ unit[u].pc = "wlock"
    /\ lock = {}
    /\ monitor_state' = [monitor_state EXCEPT ![unit[u].key] = CommitRecord(unit[u])]
    /\ unit' = [unit EXCEPT ![u] = [@ EXCEPT !.pc = "slock"]]
    /\ UNCHANGED <<ctl, mon, sched, sync, cmp, config, state_file, lock, run, crashSnap>>

\* Lines 327-338: the record written when the delta is empty.
IdleRecord(r) == [present |-> TRUE, last_sync_time |-> r.snap.last_sync_time, files |-> r.snap.files, last_synced_files_count |-> 0]

idle_write(u) ==
    /\ unit[u].pc = "ilock"
    /\ lock = {}
    /\ monitor_state' = [monitor_state EXCEPT ![unit[u].key] = IdleRecord(unit[u])]
    /\ unit' = [unit EXCEPT ![u] = [@ EXCEPT !.pc = "slock"]]
    /\ UNCHANGED <<ctl, mon, sched, sync, cmp, config, state_file, lock, run, crashSnap>>

\* _save_monitor_state, lines 124-125: take the lock, open(state_cache_file, 'w')
\* truncates the file.
save_monitor_state_open(u) ==
    /\ unit[u].pc = "slock"
    /\ lock = {}
    /\ lock' = {u}
    /\ state_file' = [ok |-> FALSE, data |-> EmptyState]
    /\ unit' = [unit EXCEPT ![u] = [@ EXCEPT !.pc = "sdump"]]
    /\ UNCHANGED <<ctl, mon, sched, sync, cmp, config, monitor_state, run, crashSnap>>

\* Mutant of Dumped: only the record of the saving unit's share is written.
Dumped_OwnKey(u) == [k \in Shares |-> IF k = unit[u].key THEN monitor_state[k] ELSE NoRecord]

\* What json.dump writes: the whole aggregate.
Dumped(u) == monitor_state

\* _save_monitor_state, line 126: json.dump(self.monitor_state, f), close, release.
save_monitor_state_dump(u) ==
    /\ unit[u].pc = "sdump"
    /\ state_file' = [ok |-> TRUE, data |-> Dumped(u)]
    /\ lock' = lock \ {u}
    /\ unit' = [unit EXCEPT ![u] = IF @.delta = <<>> THEN [@ EXCEPT !.pc = "done"] ELSE NextFile(@)]
    /\ UNCHANGED <<ctl, mon, sched, sync, cmp, config, monitor_state, run, crashSnap>>

\* Mutant of seq_advance: an error raised by a unit ends the loop (the try is
\* around the loop instead of inside it).
seq_advance_Aborts ==
    /\ run.pc = "seq"
    /\ unit[run.pos].pc \in Terminal
    /\ run' = IF run.pos < Len(config) /\ unit[run.pos].pc # "raised" THEN [run EXCEPT !.pos = run.pos + 1] ELSE [run EXCEPT !.pc = "done"]
    /\ UNCHANGED <<ctl, mon, sched, sync, cmp, config, monitor_state, state_file, lock, unit, crashSnap>>

\* monitor_all, lines 362-368: one iteration of the sequential loop has ended
\* (normally, then sleep(1); or with an error, caught and logged).
seq_advance ==
    /\ run.pc = "seq"
    /\ unit[run.pos].pc \in Terminal
    /\ run' = IF run.pos < Len(config) THEN [run EXCEPT !.pos = run.pos + 1] ELSE [run EXCEPT !.pc = "done"]
    /\ UNCHANGED <<ctl, mon, sched, sync, cmp, config, monitor_state, state_file, lock, unit, crashSnap>>

\* monitor_all, lines 380-384: every future has completed, the executor is shut down.
pool_join ==
    /\ run.pc = "pool"
    /\ \A u \in RunUnits : unit[u].pc \in Terminal
    /\ run' = [run EXCEPT !.pc = "done"]
    /\ UNCHANGED <<ctl, mon, sched, sync, cmp, config, monitor_state, state_file, lock, unit, crashSnap>>

\* ------------------------------------------------- process start and end
RECURSIVE Uncommitted(_, _, _)
\* The files of delta, from index j on, that no transfer of the tick has committed.
Uncommitted(delta, outcomes, j) ==
    IF j > Len(delta) THEN <<>>
    ELSE IF j <= Len(outcomes) /\ outcomes[j] = "ok" THEN Uncommitted(delta, outcomes, j + 1)
    ELSE <<delta[j]>> \o Uncommitted(delta, outcomes, j + 1)

\* The files the unit has transferred in this tick.
Succeeded(r) == {r.delta[j] : j \in {i \in DOMAIN r.outcomes : r.outcomes[i] = "ok"}}

\* The unit of share k is between two commits: every commit it began has been
\* saved, the next transfer is about to start or in flight, no write is in progress.
BetweenCommits(u, k) == unit[u].key = k /\ unit[u].pc \in {"transfer", "inflight"} /\ state_file.ok

SnapAtKill(k) ==
    IF \E u \in Units : BetweenCommits(u, k)
    THEN LET u == CHOOSE v \in Units : BetweenCommits(v, k)
         IN [valid |-> TRUE, done |-> Succeeded(unit[u]), todo |-> Uncommitted(unit[u].delta, unit[u].outcomes, 1)]
    ELSE NoSnap

\* Cloud123Monitor.__init__ in a new process: no unit, the lock free, the
\* state loaded from the state file.
Restart ==
    /\ unit' = [u \in Units |-> NoUnit]
    /\ lock' = {}
    /\ run' = [pc |-> "idle", workers |-> 0, pos |-> 0]
    /\ monitor_state' = load_monitor_state(state_file)
    /\ UNCHANGED <<ctl, mon, sched, sync, cmp, config, state_file>>

\* run_once returns and the process ends; it is started again later.
process_exit ==
    /\ run.pc = "done"
    /\ Restart
    /\ crashSnap' = [k \in Shares |-> NoSnap]

\* The process is killed while a tick is in progress, and started again.
crash ==
    /\ run.pc \in {"seq", "pool"}
    /\ Restart
    /\ crashSnap' = [k \in Shares |-> SnapAtKill(k)]

\* The steps of a monitor_all execution that has begun, and of its units.
UnitSteps ==
    \/ \E u \in Units : monitor_share_link(u)
    \/ \E u \in Units : get_file_list(u)
    \/ \E u \in Units : read_state(u)
    \/ \E u \in Units : diff(u)
    \/ \E u \in Units : transfer_file_begin(u)
    \/ \E u \in Units : transfer_file_end(u)
    \/ \E u \in Units : write_state(u)
    \/ \E u \in Units : idle_write(u)
    \/ \E u \in Units : save_monitor_state_open(u)
    \/ \E u \in Units : save_monitor_state_dump(u)
    \/ seq_advance
    \/ pool_join

\* The steps of one monitor_all execution and of its units.
Tick == monitor_all_start \/ UnitSteps

Next == Tick

Spec == Init /\ [][Next]_vars

\* One share run by main.py once again and again, the process being killed at
\* any point of a tick.
InitCrash == InitWith(SingleConfigs)

NextCrash == Tick \/ process_exit \/ crash

SpecCrash == InitCrash /\ [][NextCrash]_vars

\* ------------------------------------------------ the service (app.py)
\* check_single_share, lines 287-306: a new thread runs _monitor_share_link on
\* the configuration entry of the requested share.
check_single_share ==
    /\ \E u \in ManualUnits :
          /\ unit[u].pc \in Terminal \cup {"none"}
          /\ \E i \in DOMAIN ctl.config_file : Enter(u, ctl.config_file[i].key, ctl.config_file[i].kind)
    /\ UNCHANGED <<ctl, mon, sched, sync, cmp, config, monitor_state, state_file, lock, run, crashSnap>>

\* reload_config, lines 170-171 and 197: the configuration is read again from
\* conf/config.yaml and self.monitor_state = self._load_monitor_state(), on
\* the caller's thread and without the lock.  The scheduler manager is not
\* running here, so lines 183-194 do nothing (reload_config_scheduler is
\* reload_config with the manager running and the configuration file as loaded).
reload_config ==
    /\ config' = ctl.config_file
    /\ monitor_state' = load_monitor_state(state_file)
    /\ UNCHANGED <<ctl, mon, sched, sync, cmp, state_file, lock, run, unit, crashSnap>>

\* monitor_all returns to start_scheduled_monitoring or to the scheduler
\* thread, which calls it again at the next tick.
monitor_all_return ==
    /\ run.pc = "done"
    /\ run' = [pc |-> "idle", workers |-> 0, pos |-> 0]
    /\ unit' = [u \in Units |-> IF u \in RunUnits THEN NoUnit ELSE unit[u]]
    /\ UNCHANGED <<ctl, mon, sched, sync, cmp, config, monitor_state, state_file, lock, crashSnap>>

InitService == InitWith(SingleConfigs)

NextService == Tick \/ check_single_share \/ reload_config \/ monitor_all_return

SpecService == InitService /\ [][NextService]_vars

\* ------------------------------------- FileSyncer.sync_file (file_syncer.py)
\* The largest retries argument and sync.max_retries setting tried.
MaxRetries == 2

\* The default of the retries parameter of sync_file (line 16).
DefaultRetries == 3

\* file_id / share_id arguments: missing (empty) or given.
FileIds == {"", "f1"}

ShareIds == {"", "s1"}

\* What one call of the external save operation can do: return a result with
\* code 0, return a result with another code (or no result), raise.
SaveOutcomes == {"code0", "nonzero", "raise"}

\* The tick variables, which sync_file and get_files_to_sync do not touch.
tickVars == <<config, monitor_state, state_file, lock, run, unit, crashSnap>>

\* sync_file is called with retries = r.
Called(via, configured, r, fid, sid) ==
    [NoSync EXCEPT !.pc = "check", !.via = via, !.max_retries = configured, !.retries = r, !.file_id = fid, !.share_id = sid]

\* A caller passes the retry bound: sync_file(..., retries = r).
sync_file_call ==
    /\ sync.pc = "idle"
    /\ \E r \in 0..MaxRetries, fid \in FileIds, sid \in ShareIds : sync' = Called("sync_file", r, r, fid, sid)
    /\ UNCHANGED <<ctl, mon, tickVars, cmp, sched>>

\* Cloud123Monitor._transfer_file, lines 148-157, with sync.max_retries = R in
\* the configuration: the call has no retries argument, the default applies.
transfer_file_call ==
    /\ sync.pc = "idle"
    /\ \E R \in 0..MaxRetries : sync' = Called("_transfer_file", R, DefaultRetries, "f1", "s1")
    /\ UNCHANGED <<ctl, mon, tickVars, cmp, sched>>

\* Mutant of sync_file_validate: the arguments are not checked.
sync_file_validate_Skipped ==
    /\ sync.pc = "check"
    /\ sync' = [sync EXCEPT !.pc = "attempt"]
    /\ UNCHANGED <<ctl, mon, tickVars, cmp, sched>>

\* Lines 37-40: if not file_id or not share_id: raise ValueError.
sync_file_validate ==
    /\ sync.pc = "check"
    /\ sync' = IF sync.file_id = "" \/ sync.share_id = ""
               THEN [sync EXCEPT !.pc = "raised", !.error = [type |-> "ValueError", attempts |-> 0, detail |-> NoMsg]]
               ELSE [sync EXCEPT !.pc = "attempt"]
    /\ UNCHANGED <<ctl, mon, tickVars, cmp, sched>>

\* Line 43, for attempt in range(retries + 1): the next iteration, or the loop ends.
NextAttempt(s) == IF s.attempt < s.retries THEN [s EXCEPT !.attempt = s.attempt + 1] ELSE [s EXCEPT !.pc = "exhausted"]

\* Mutant of SaveOk: a result with code 0 does not end the loop.
SaveOk_KeepsTrying(s) == NextAttempt([s EXCEPT !.log = Append(s.log, "code0"), !.waits = Append(s.waits, 0)])

\* Lines 73-75: result.get('code') == 0, return result.
SaveOk(s) == [s EXCEPT !.pc = "returned", !.log = Append(s.log, "code0")]

\* Mutant of SaveBadStatus: the failure detail is not taken from this attempt.
SaveBadStatus_KeepsMsg(s) == NextAttempt([s EXCEPT !.log = Append(s.log, "nonzero"), !.waits = Append(s.waits, 0)])

\* Lines 76-78: another code (or no result): error_msg is set and logged, and
\* the loop goes on at once (no sleep in this branch).
SaveBadStatus(s) ==
    NextAttempt([s EXCEPT !.log = Append(s.log, "nonzero"),
                          !.waits = Append(s.waits, 0),
                          !.error_msg = [kind |-> "nonzero", attempt |-> s.attempt + 1]])

\* Lines 79-87: the call raised: error_msg is set and, unless this was the last
\* attempt, time.sleep((attempt + 1) * 2).
SaveRaised(s) ==
    NextAttempt([s EXCEPT !.log = Append(s.log, "raise"),
                          !.waits = Append(s.waits, IF s.attempt < s.retries THEN (s.attempt + 1) * 2 ELSE 0),
                          !.error_msg = [kind |-> "raise", attempt |-> s.attempt + 1]])

\* Lines 43-87: one iteration of the loop: one call of save_file_to_cloud or
\* save_shared_file, and what follows its outcome.
sync_file_attempt ==
    /\ sync.pc = "attempt"
    /\ \E o \in SaveOutcomes :
          sync' = CASE o = "code0" -> SaveOk(sync)
                    [] o = "nonzero" -> SaveBadStatus(sync)
                    [] OTHER -> SaveRaised(sync)
    /\ UNCHANGED <<ctl, mon, tickVars, cmp, sched>>

\* Line 90: raise Exception("... tried retries + 1 times: " + error_msg).
sync_file_raise ==
    /\ sync.pc = "exhausted"
    /\ sync' = [sync EXCEPT !.pc = "raised", !.error = [type |-> "Exception", attempts |-> sync.retries + 1, detail |-> sync.error_msg]]
    /\ UNCHANGED <<ctl, mon, tickVars, cmp, sched>>

\* The caller has the result or the error; another call can follow.
sync_file_end ==
    /\ sync.pc \in {"returned", "raised"}
    /\ sync' = NoSync
    /\ UNCHANGED <<ctl, mon, tickVars, cmp, sched>>

InitSync == InitWith(SingleConfigs) /\ monitor_state = EmptyState

NextSync == sync_file_call \/ transfer_file_call \/ sync_file_validate \/ sync_file_attempt \/ sync_file_raise \/ sync_file_end

SpecSync == InitSync /\ [][NextSync]_vars

\* ------------------- FileComparator.get_files_to_sync (file_comparator.py)
\* The longest source and target lists tried.
MaxLen == 2

CmpPaths == {1, 2}

\* md5 values: absent / empty, or a fingerprint.
CmpMd5s == {"", NewMd5}

\* type 1 is a folder, 0 a file.
CmpTypes == {0, 1}

\* The descriptors a list may hold.
CmpEntries == {[path |-> p, md5 |-> m, type |-> t, synced_at |-> FALSE] : p \in CmpPaths, m \in CmpMd5s, t \in CmpTypes}

\* Every list of at most MaxLen descriptors, repeated paths included.
CmpLists == UNION {[1..n -> CmpEntries] : n \in 0..MaxLen}

\* get_files_to_sync(source_files, target_files) returns; its result is then
\* fed back as both arguments.
get_files_to_sync_call ==
    /\ cmp.pc = "called"
    /\ LET r == get_files_to_sync(cmp.source_files, cmp.target_files)
       IN cmp' = [cmp EXCEPT !.pc = "done", !.result = r, !.again = get_files_to_sync(r, r)]
    /\ UNCHANGED <<ctl, mon, tickVars, sync, sched>>

InitCompare ==
    /\ TickInit(SingleConfigs)
    /\ monitor_state = EmptyState
    /\ sync = NoSync
    /\ sched = NoSched
    /\ mon = NoMon(HistoryCap)
    /\ ctl = NoCtl(config)
    /\ \E S \in CmpLists, K \in CmpLists : cmp = [NoCmp EXCEPT !.pc = "called", !.source_files = S, !.target_files = K]

NextCompare == get_files_to_sync_call

SpecCompare == InitCompare /\ [][NextCompare]_vars

\* ---------------------------------------------------- scheduler: registry
\* The first index of a job_info with this id in self.jobs, 0 when there is none.
IdxOf(jobs, id) ==
    IF \E i \in DOMAIN jobs : jobs[i].id = id
    THEN CHOOSE i \in DOMAIN jobs : jobs[i].id = id /\ \A j \in 1..(i - 1) : jobs[j].id # id
    ELSE 0

RemoveAt(seq, i) == [k \in 1..(Len(seq) - 1) |-> IF k < i THEN seq[k] ELSE seq[k + 1]]

\* The number of entries registered under an id, in self.jobs or in schedule.jobs.
Count(seq, id) == Cardinality({i \in DOMAIN seq : seq[i].id = id})

\* The Job objects of schedule.jobs and those self.jobs refers to.
UsedJobs(S) ==
    {S.lib[i].job : i \in DOMAIN S.lib} \cup {S.jobs[i].schedule_job : i \in DOMAIN S.jobs}

\* The identity of a newly built Job object.
NewJob(S) == CHOOSE k \in 1..(Cardinality(UsedJobs(S)) + 1) : k \notin UsedJobs(S) /\ \A m \in 1..(k - 1) : m \in UsedJobs(S)

\* A Job object taken out of schedule.jobs is job 0 from then on for the
\* polling threads that collected it: it still runs its callable, and nothing
\* tells two such objects of one id apart.
Cancelled(S, gone) ==
    [S EXCEPT !.poll = [t \in PollThreads |->
        [S.poll[t] EXCEPT
            !.due = [i \in DOMAIN S.poll[t].due |->
                        IF S.poll[t].due[i].job \in gone THEN [S.poll[t].due[i] EXCEPT !.job = 0] ELSE S.poll[t].due[i]],
            !.cur = IF S.poll[t].cur.job \in gone THEN [S.poll[t].cur EXCEPT !.job = 0] ELSE S.poll[t].cur]]]

\* Mutant of add_interval_task: the registration ignores the interval it is given.
add_interval_task_FixedInterval(S, func, n, id) ==
    LET j == NewJob(S)
    IN [S EXCEPT !.jobs = Append(@, [id |-> id, func |-> func, interval |-> 1, kwargs |-> <<>>, schedule_job |-> j]),
                 !.lib = Append(@, [job |-> j, id |-> id, interval |-> 1, left |-> 1])]

\* TaskScheduler.add_interval_task: schedule.every(n).seconds.do(task_wrapper)
\* appends a Job whose next_run is now + n to schedule.jobs; the job_info is
\* appended to self.jobs.  No check that the id is new.
add_interval_task(S, func, n, id) ==
    LET j == NewJob(S)
    IN [S EXCEPT !.jobs = Append(@, [id |-> id, func |-> func, interval |-> n, kwargs |-> <<>>, schedule_job |-> j]),
                 !.lib = Append(@, [job |-> j, id |-> id, interval |-> n, left |-> n])]

\* Mutant of remove_job: the entry stays registered.
remove_job_Keeps(S, id) == S

\* TaskScheduler.remove_job: the first job_info with the id is popped and its
\* Job cancelled (schedule.cancel_job removes the object from schedule.jobs).
remove_job(S, id) ==
    LET i == IdxOf(S.jobs, id)
    IN IF i = 0 THEN S
       ELSE [Cancelled(S, {S.jobs[i].schedule_job}) EXCEPT
                      !.jobs = RemoveAt(@, i),
                      !.lib = SelectSeq(@, LAMBDA x : x.job # S.jobs[i].schedule_job)]

\* An API call in progress: its arguments.
Begin(c, op, id, n) == [NoCall EXCEPT !.op = op, !.id = id, !.n = n]

\* An API call that returned: what it was and what it returned.
Returned(op, id, n, result) == [NoCall EXCEPT !.op = op, !.id = id, !.n = n, !.result = result]

Idle(c) == sched.calls[c].pc = "idle"

\* SchedulerManager.add_task: monitored_task is registered under task_id, one
\* of ids, which no registered entry has, and task_mapping gains the id.
add_task(c, ids) ==
    /\ Idle(c)
    /\ \E id \in ids, n \in Intervals :
          /\ IdxOf(sched.jobs, id) = 0
          /\ sched' = [add_interval_task(sched, id, n, id) EXCEPT
                          !.task_mapping = @ \cup {id},
                          !.calls[c] = Returned("add", id, n, "added")]
    /\ UNCHANGED <<ctl, mon, tickVars, sync, cmp>>

\* SchedulerManager.remove_task: TaskScheduler.remove_job and its result;
\* task_mapping keeps the id.
remove_task(c) ==
    /\ Idle(c)
    /\ \E id \in TaskIds :
          LET ok == IdxOf(sched.jobs, id) # 0
          IN sched' = [remove_job(sched, id) EXCEPT
                          !.calls[c] = Returned("remove", id, 1, IF ok THEN "true" ELSE "false")]
    /\ UNCHANGED <<ctl, mon, tickVars, sync, cmp>>

\* TaskScheduler.update_task_interval, lines 170-182: the job_info is looked
\* up; without one the call returns False, with one its func is kept.
Lookup_job(c, op, id, n) ==
    LET i == IdxOf(sched.jobs, id)
    IN IF i = 0
       THEN Returned(op, id, n, "false")
       ELSE [Begin(c, op, id, n) EXCEPT !.pc = "remove", !.func = sched.jobs[i].func]

update_task_interval_call(c) ==
    /\ Idle(c)
    /\ \E id \in TaskIds, n \in Intervals :
          sched' = [sched EXCEPT !.calls[c] = Lookup_job(c, "update", id, n)]
    /\ UNCHANGED <<ctl, mon, tickVars, sync, cmp>>

\* update_task_interval, line 185: self.remove_job(task_id), result ignored.
update_task_interval_remove(c) ==
    /\ sched.calls[c].pc = "remove"
    /\ sched' = [remove_job(sched, sched.calls[c].id) EXCEPT !.calls[c].pc = "add"]
    /\ UNCHANGED <<ctl, mon, tickVars, sync, cmp>>

\* update_task_interval, lines 188-191: the kept func is registered again with
\* the new interval under the same id; the call returns True.  When the caller
\* is reload_config, it then reloads the state (main.py, line 197) and returns.
update_task_interval_add(c) ==
    /\ sched.calls[c].pc = "add"
    /\ sched' = [add_interval_task(sched, sched.calls[c].func, sched.calls[c].n, sched.calls[c].id) EXCEPT
                    !.calls[c] = Returned(sched.calls[c].op, sched.calls[c].id, sched.calls[c].n, "true")]
    /\ monitor_state' = IF sched.calls[c].op = "reload" THEN load_monitor_state(state_file) ELSE monitor_state
    /\ UNCHANGED <<ctl, mon, config, state_file, lock, run, unit, crashSnap, sync, cmp>>

\* Mutant of reload_config_scheduler: the new interval is applied by stopping the scheduler.
reload_config_scheduler_Restarts(c) ==
    /\ Idle(c)
    /\ \E n \in Intervals :
          sched' = [sched EXCEPT !.running = FALSE, !.mrunning = FALSE,
                                 !.calls[c] = Returned("reload", "t1", n, "false")]
    /\ UNCHANGED <<ctl, mon, tickVars, sync, cmp>>

\* Cloud123Monitor.reload_config, lines 183-197: with the manager running, the
\* interval of 'monitor_all_shares' is replaced by interval_minutes * 60;
\* otherwise the scheduler is not touched.  When update_task_interval is not
\* called or finds no task, the state is reloaded (line 197) in the same step.
reload_config_scheduler(c) ==
    /\ Idle(c)
    /\ \E n \in Intervals :
          LET call == IF sched.mrunning THEN Lookup_job(c, "reload", "t1", n)
                      ELSE Returned("reload", "t1", n, "notrunning")
          IN /\ sched' = [sched EXCEPT !.calls[c] = call]
             /\ monitor_state' = IF call.pc = "idle" THEN load_monitor_state(state_file) ELSE monitor_state
    /\ UNCHANGED <<ctl, mon, config, state_file, lock, run, unit, crashSnap, sync, cmp>>

\* ------------------------------------------------- scheduler: start, stop
AliveThreads == {t \in PollThreads : sched.poll[t].pc # "none"}

\* Mutant of manager_start: the running flags are not consulted.
manager_start_Unguarded(c) ==
    /\ Idle(c)
    /\ \E t \in PollThreads :
          /\ t \notin AliveThreads
          /\ \A m \in 1..(t - 1) : m \in AliveThreads
          /\ sched' = [sched EXCEPT !.running = TRUE, !.mrunning = TRUE, !.thread = t, !.stopped = FALSE,
                                    !.poll[t] = [NoPoll EXCEPT !.pc = "loop"],
                                    !.calls[c] = Returned("start", "t1", 1, "started")]
    /\ UNCHANGED <<ctl, mon, tickVars, sync, cmp>>

\* SchedulerManager.start and TaskScheduler.start: nothing when already
\* running; otherwise running is set and a new daemon thread runs _run_scheduler.
manager_start(c) ==
    /\ Idle(c)
    /\ IF sched.mrunning
       THEN sched' = [sched EXCEPT !.calls[c] = Returned("start", "t1", 1, "noop")]
       ELSE IF sched.running
       THEN sched' = [sched EXCEPT !.mrunning = TRUE, !.stopped = FALSE,
                                   !.calls[c] = Returned("start", "t1", 1, "started")]
       ELSE \E t \in PollThreads :
               /\ t \notin AliveThreads
               /\ \A m \in 1..(t - 1) : m \in AliveThreads
               /\ sched' = [sched EXCEPT !.running = TRUE, !.mrunning = TRUE, !.thread = t, !.stopped = FALSE,
                                         !.poll[t] = [NoPoll EXCEPT !.pc = "loop"],
                                         !.calls[c] = Returned("start", "t1", 1, "started")]
    /\ UNCHANGED <<ctl, mon, tickVars, sync, cmp>>

\* SchedulerManager.stop, lines 32-34, and TaskScheduler.stop, lines 71-76:
\* nothing when not running; otherwise running is cleared and the polling
\* thread, when alive, is joined.
manager_stop_call(c) ==
    /\ Idle(c)
    /\ sched' = IF ~sched.mrunning
                THEN [sched EXCEPT !.calls[c] = Returned("stop", "t1", 1, "noop")]
                ELSE IF ~sched.running
                THEN [sched EXCEPT !.calls[c] = [Begin(c, "stop", "t1", 1) EXCEPT !.pc = "finish"]]
                ELSE [sched EXCEPT !.running = FALSE,
                                   !.calls[c] = [Begin(c, "stop", "t1", 1) EXCEPT
                                                    !.pc = IF sched.thread \in AliveThreads THEN "join" ELSE "clear"]]
    /\ UNCHANGED <<ctl, mon, tickVars, sync, cmp>>

\* TaskScheduler.stop, lines 78-79: join returns because the thread ended.
stop_join(c) ==
    /\ sched.calls[c].pc = "join"
    /\ sched.thread \notin AliveThreads
    /\ sched' = [sched EXCEPT !.calls[c].pc = "clear", !.calls[c].result = "joined"]
    /\ UNCHANGED <<ctl, mon, tickVars, sync, cmp>>

\* TaskScheduler.stop, line 79: join(timeout=5) returns with the thread still
\* inside an invocation that outlasts the timeout.
stop_join_timeout(c) ==
    /\ sched.calls[c].pc = "join"
    /\ sched.thread \in AliveThreads
    /\ sched.poll[sched.thread].pc = "inflight"
    /\ sched' = [sched EXCEPT !.calls[c].pc = "clear", !.calls[c].result = "timeout"]
    /\ UNCHANGED <<ctl, mon, tickVars, sync, cmp>>

\* TaskScheduler.stop, lines 82-83: schedule.clear() and self.jobs.clear().
stop_clear(c) ==
    /\ sched.calls[c].pc = "clear"
    /\ sched' = [Cancelled(sched, UsedJobs(sched)) EXCEPT !.lib = <<>>, !.jobs = <<>>, !.stopped = TRUE,
                                                            !.calls[c].pc = "finish"]
    /\ UNCHANGED <<ctl, mon, tickVars, sync, cmp>>

\* SchedulerManager.stop, lines 37-38, after scheduler.stop() returned.
manager_stop_return(c) ==
    /\ sched.calls[c].pc = "finish"
    /\ sched' = [sched EXCEPT !.mrunning = FALSE, !.task_mapping = {},
                              !.calls[c] = Returned("stop", "t1", 1, IF sched.calls[c].result = "timeout" THEN "timeout" ELSE "stopped")]
    /\ UNCHANGED <<ctl, mon, tickVars, sync, cmp>>

\* -------------------------------------------- scheduler: polling, monitor
\* TaskMonitor.start_task: the status of the id is 'running'.
start_task(S, id) == [S EXCEPT !.task_status[id] = "running"]

\* Mutant of complete_task: every record says success.
complete_task_AlwaysSuccess(S, id, success) ==
    [S EXCEPT !.task_status[id] = "completed",
              !.task_history = Append(@, [id |-> id, success |-> TRUE, error |-> "", details |-> {}])]

\* TaskMonitor.complete_task as monitored_task calls it: the status is
\* 'completed' and one record with the outcome is appended to task_history
\* (its cap of 1000 is out of reach).  error is str(e) of the exception, None
\* ("") without one.  details is the dict start_task created, updated with
\* the callable's return value: the callables followed here return None, so
\* it stays empty.
complete_task(S, id, success) ==
    [S EXCEPT !.task_status[id] = "completed",
              !.task_history = Append(@, [id |-> id, success |-> success, error |-> IF success THEN "" ELSE "e", details |-> {}])]

\* Mutant of task_wrapper: an exception of the callable ends the polling thread.
task_wrapper_Propagates(p, raised) ==
    IF raised THEN NoPoll
    ELSE [NoPoll EXCEPT !.pc = IF p.due = <<>> THEN "loop" ELSE "run", !.due = p.due]

\* monitored_task (manager.py 63-88) inside task_wrapper (task_scheduler.py
\* 30-36) inside the try of _run_scheduler (92-96): whether the callable
\* returned or raised, run_pending goes on with the jobs it collected, then
\* the loop sleeps and polls again.
task_wrapper(p, raised) ==
    [NoPoll EXCEPT !.pc = IF p.due = <<>> THEN "loop" ELSE "run", !.due = p.due]

\* schedule.run_pending, first half: the jobs whose next_run is reached, as a list.
DueJobs(lib) ==
    LET d == SelectSeq(lib, LAMBDA x : x.left = 0)
    IN [i \in DOMAIN d |-> [job |-> d[i].job, id |-> d[i].id]]

\* _run_scheduler, line 90: the loop condition read as false; the thread ends.
run_scheduler_exit(t) ==
    /\ sched.poll[t].pc = "loop"
    /\ ~sched.running
    /\ sched' = [sched EXCEPT !.poll[t] = NoPoll]
    /\ UNCHANGED <<ctl, mon, tickVars, sync, cmp>>

\* _run_scheduler, lines 90-94: the loop condition read as true, and
\* schedule.run_pending() collects the due jobs (none due: sleep, poll again).
run_pending(t, cap) ==
    /\ sched.poll[t].pc = "loop"
    /\ sched.running
    /\ DueJobs(sched.lib) # <<>>
    /\ sched.fired + Len(DueJobs(sched.lib)) <= cap
    /\ sched' = [sched EXCEPT !.poll[t].pc = "run", !.poll[t].due = DueJobs(sched.lib),
                              !.fired = @ + Len(DueJobs(sched.lib))]
    /\ UNCHANGED <<ctl, mon, tickVars, sync, cmp>>

\* schedule.run_pending, second half, one job: job.run() calls the wrapper,
\* whose first act is monitor.start_task.  Whether the callable will return or
\* raise is its own matter, fixed here.
job_run(t) ==
    /\ sched.poll[t].pc = "run"
    /\ \E raises \in BOOLEAN :
          LET j == Head(sched.poll[t].due)
          IN sched' = [start_task(sched, j.id) EXCEPT
                          !.poll[t].pc = "inflight", !.poll[t].cur = j,
                          !.poll[t].due = Tail(sched.poll[t].due),
                          !.poll[t].raises = raises]
    /\ UNCHANGED <<ctl, mon, tickVars, sync, cmp>>

\* The callable returns or raises: monitor.complete_task records it, job.run
\* sets next_run of the Job object to now + interval, the wrapper returns.
job_end(t) ==
    /\ sched.poll[t].pc = "inflight"
    /\ LET j == sched.poll[t].cur
           raised == sched.poll[t].raises
       IN sched' = [complete_task(sched, j.id, ~raised) EXCEPT
                          !.lib = [i \in DOMAIN sched.lib |-> IF sched.lib[i].job = j.job
                                                           THEN [sched.lib[i] EXCEPT !.left = sched.lib[i].interval]
                                                           ELSE sched.lib[i]],
                          !.poll[t] = task_wrapper(sched.poll[t], raised)]
    /\ UNCHANGED <<ctl, mon, tickVars, sync, cmp>>

\* One second passes.
second ==
    /\ \E i \in DOMAIN sched.lib : sched.lib[i].left > 0
    /\ sched' = [sched EXCEPT !.lib = [i \in DOMAIN sched.lib |->
                                            [sched.lib[i] EXCEPT !.left = IF sched.lib[i].left > 0 THEN sched.lib[i].left - 1 ELSE 0]]]
    /\ UNCHANGED <<ctl, mon, tickVars, sync, cmp>>

\* ----------------------------------------------- scheduler: specifications
\* "t1" only: main.py registers 'monitor_all_shares' and nothing else.
CallerSteps(c) ==
    \/ add_task(c, {"t1"})
    \/ remove_task(c)
    \/ update_task_interval_call(c)
    \/ update_task_interval_remove(c)
    \/ update_task_interval_add(c)
    \/ reload_config_scheduler(c)
    \/ manager_start(c)
    \/ manager_stop_call(c)
    \/ stop_join(c)
    \/ stop_join_timeout(c)
    \/ stop_clear(c)
    \/ manager_stop_return(c)

PollSteps(t, cap) ==
    \/ run_scheduler_exit(t)
    \/ run_pending(t, cap)
    \/ job_run(t)
    \/ job_end(t)

InitSched == InitWith(SingleConfigs) /\ monitor_state = EmptyState

\* One thread calls the API, one call after the other, beside the polling threads.
NextSched ==
    \/ CallerSteps(1)
    \/ \E t \in PollThreads : PollSteps(t, MaxCallFires)
    \/ second

SpecSched == InitSched /\ [][NextSched]_vars

\* The scheduler left to poll: tasks are registered, the scheduler is started
\* and never stopped.
NextPoll ==
    \/ add_task(1, TaskIds)
    \/ manager_start(1)
    \/ \E t \in PollThreads : run_pending(t, MaxFires)
    \/ \E t \in PollThreads : job_run(t)
    \/ \E t \in PollThreads : job_end(t)
    \/ second

SpecPoll == InitSched /\ [][NextPoll]_vars

\* Several tasks on a scheduler that is started and stopped.
NextStop ==
    \/ add_task(1, TaskIds)
    \/ manager_start(1)
    \/ manager_stop_call(1)
    \/ stop_join(1)
    \/ stop_join_timeout(1)
    \/ stop_clear(1)
    \/ manager_stop_return(1)
    \/ \E t \in PollThreads : PollSteps(t, MaxCallFires)
    \/ second

SpecStop == InitSched /\ [][NextStop]_vars

\* A second thread calls update_task_interval while the first calls the API,
\* beside the polling threads.
NextRace ==
    \/ CallerSteps(1)
    \/ update_task_interval_call(2)
    \/ update_task_interval_remove(2)
    \/ update_task_interval_add(2)
    \/ \E t \in PollThreads : PollSteps(t, MaxRaceFires)
    \/ second

SpecRace == InitSched /\ [][NextRace]_vars

\* ------------------------------------------------------------ properties
\* The file f is recorded, with its fingerprint, in a files list.
Recorded(files, f) == \E i \in DOMAIN files : files[i].path = f.path /\ files[i].md5 = f.md5

\* What a process started now would load.
Persisted == load_monitor_state(state_file)

\* The positions at which a unit has computed its delta.
DeltaKnown == {"transfer", "inflight", "wlock", "slock", "sdump", "ilock", "done"}

\* C1: every file a unit has transferred is in the aggregate and in the
\* persisted state before the transfer of the next file of the delta begins;
\* and after the process was killed between two commits, the unit of the next
\* tick finds the committed files in the reloaded state and its delta is exactly
\* the files of the old delta that were not committed (file 2 only, when file 1
\* of a 2-file delta was committed).
C1_PerFileCommitSurvivesKill ==
    \A u \in Units :
        LET r == unit[u] IN
        /\ r.pc \in {"transfer", "inflight"} =>
              \A f \in Succeeded(r) : Recorded(monitor_state[r.key].files, f) /\ Recorded(Persisted[r.key].files, f)
        /\ (crashSnap[r.key].valid /\ r.pc \in DeltaKnown) =>
              /\ r.delta = crashSnap[r.key].todo
              /\ \A f \in crashSnap[r.key].done : Recorded(r.snap.files, f)
              /\ \A i \in DOMAIN crashSnap[r.key].todo : ~Recorded(r.snap.files, crashSnap[r.key].todo[i])

\* C1 witness: killed after file 1 was committed, the next tick transfers file 2 only.
C1_Witness ==
    \E u \in Units :
        /\ crashSnap[unit[u].key].valid
        /\ crashSnap[unit[u].key].done = {FileInfo(1, NewMd5)}
        /\ unit[u].pc = "inflight"
        /\ unit[u].delta = <<FileInfo(2, NewMd5)>>
        /\ Recorded(unit[u].snap.files, FileInfo(1, NewMd5))

\* C2: a file is recorded with its new fingerprint, in the aggregate or in the
\* persisted state, only if a transfer of that file succeeded in the tick.
C2_OnlyTransferredRecorded ==
    \A k \in Shares : \A files \in {monitor_state[k].files, Persisted[k].files} :
        \A i \in DOMAIN files :
            files[i].md5 = NewMd5 =>
                \E u \in Units : unit[u].key = k /\ \E f \in Succeeded(unit[u]) : f.path = files[i].path

\* C2 witness: file 1 was transferred and recorded, the transfer of file 2
\* failed and file 2 is not recorded.
C2_Witness ==
    \E u \in Units :
        /\ unit[u].pc = "done"
        /\ unit[u].outcomes = <<"ok", "fail">>
        /\ Recorded(Persisted[unit[u].key].files, FileInfo(1, NewMd5))
        /\ ~HasPath(monitor_state[unit[u].key].files, 2)

\* The commit of the j-th file of the delta has been written to the aggregate.
CommitWritten(r, j) == j < Len(r.outcomes) \/ r.pc \notin {"wlock"}

\* The commit of the j-th file of the delta has been saved.
CommitSaved(r, j) == j < Len(r.outcomes) \/ r.pc \notin {"wlock", "slock", "sdump"}

\* C3: a failed transfer does not end the loop over the delta (a unit that has
\* ended has attempted every file of its delta), and the files committed in the
\* tick stay in the aggregate and in the persisted state.
C3_FailureNeitherAbortsNorRollsBack ==
    \A u \in Units :
        LET r == unit[u] IN
        /\ (r.pc \in Terminal /\ r.delta # <<>>) => Len(r.outcomes) = Len(r.delta)
        /\ \A j \in DOMAIN r.outcomes :
              r.outcomes[j] = "ok" =>
                  /\ CommitWritten(r, j) => Recorded(monitor_state[r.key].files, r.delta[j])
                  /\ (CommitSaved(r, j) /\ state_file.ok) => Recorded(state_file.data[r.key].files, r.delta[j])

\* C3 witness: the transfer of file 1 failed, file 2 was still transferred and committed.
C3_Witness ==
    \E u \in Units :
        /\ unit[u].pc = "done"
        /\ unit[u].outcomes = <<"fail", "ok">>
        /\ Recorded(Persisted[unit[u].key].files, FileInfo(2, NewMd5))

\* The record of file f of share k is being committed: written to the
\* aggregate by a unit whose save has not completed.
InFlightCommit(k, f) ==
    \E u \in Units : /\ unit[u].key = k
                     /\ unit[u].pc \in {"slock", "sdump"}
                     /\ unit[u].delta # <<>>
                     /\ unit[u].delta[unit[u].idx].path = f.path

\* C4 (as claimed): when the process is killed and started again, every file
\* recorded before the kill, except the one whose commit was in flight, is
\* still recorded in the reloaded state.
C4_KillLosesAtMostInFlight ==
    [][(run.pc # "idle" /\ run'.pc = "idle") =>
          \A k \in Shares : \A i \in DOMAIN monitor_state[k].files :
              \/ InFlightCommit(k, monitor_state[k].files[i])
              \/ HasPath(monitor_state'[k].files, monitor_state[k].files[i].path)]_vars

\* From the read of its record to the end of its last save (the unit keeps
\* working on the copy it read).
InSection(u) == unit[u].pc \in {"diff", "transfer", "inflight", "wlock", "slock", "sdump", "ilock"}

\* C5 (as claimed): between a unit's read of its record and the persistence
\* of its update no other thread changes the aggregate or the state file.
C5_OneCriticalSection ==
    [][\A u \in Units :
          (InSection(u) /\ unit'[u] = unit[u]) => (monitor_state' = monitor_state /\ state_file' = state_file)]_vars

\* C6: a unit holds the state lock only inside _save_monitor_state, never
\* while it lists, diffs, or is in a transfer (backoff included).
C6_LockNotHeldAcrossNetwork ==
    /\ Cardinality(lock) <= 1
    /\ \A u \in Units :
          /\ unit[u].pc \in {"listing", "diff", "transfer", "inflight"} => u \notin lock
          /\ u \in lock => unit[u].pc = "sdump"

\* C6 witness: one unit is in a transfer while the unit of another share
\* holds the lock for its commit.
C6_Witness ==
    \E u, v \in Units :
        /\ unit[u].key # unit[v].key
        /\ unit[u].pc = "inflight"
        /\ unit[v].pc = "sdump"
        /\ v \in lock

\* The unit waits for the state lock.
WaitsForLock(u) == unit[u].pc \in {"rlock", "wlock", "ilock", "slock"} /\ lock # {}

\* C7 (as claimed): a unit committing for share A never waits for the commit
\* of a unit of another share B.
C7_NoCrossKeyWaiting ==
    \A a, b \in Units : (unit[a].key # unit[b].key /\ b \in lock) => ~WaitsForLock(a)

\* The unit has committed its record and the save has returned.
HasCommitted(u) ==
    \/ unit[u].pc \in {"transfer", "inflight", "done"} /\ unit[u].success_count > 0
    \/ unit[u].pc = "done" /\ unit[u].delta = <<>>

\* The record the unit committed last.
LastCommitted(u) == IF unit[u].delta = <<>> THEN IdleRecord(unit[u]) ELSE CommitRecord(unit[u])

\* C7 (amended): commits of different shares are serialized by the one lock,
\* and each is atomic for its key: once a unit's commit has returned, the
\* aggregate and every completely written state file hold its record exactly
\* as committed, whatever the units of the other shares commit.
C7_CommitsAtomicPerKey ==
    \A u \in RunUnits :
        HasCommitted(u) =>
            /\ monitor_state[unit[u].key] = LastCommitted(u)
            /\ state_file.ok => state_file.data[unit[u].key] = LastCommitted(u)

\* C7 witness: the units of two shares have both committed a transferred file.
C7_Witness ==
    \E a, b \in RunUnits :
        /\ unit[a].key # unit[b].key
        /\ unit[a].pc = "done" /\ unit[a].success_count > 0
        /\ unit[b].pc = "done" /\ unit[b].success_count > 0
        /\ run.pc = "pool"
        /\ state_file.ok

\* C8 (as claimed): at most one transfer of a share is in flight.
C8_OneTransferPerShare ==
    \A u, v \in Units :
        (u # v /\ unit[u].key = unit[v].key) => ~(unit[u].pc = "inflight" /\ unit[v].pc = "inflight")

\* C9: in one monitor_all the units running at the same time are at most one,
\* started in configuration order, in sequential mode, and at most the number
\* of workers (thread_pool_size N when N > 0) in pooled mode.
C9_FanOutBounded ==
    /\ run.pc = "seq" =>
          /\ Cardinality({u \in RunUnits : Running(u)}) <= 1
          /\ \A i, j \in RunUnits : (i < j /\ unit[j].pc # "none") => unit[i].pc \in Terminal
    /\ run.pc = "pool" => Cardinality({u \in RunUnits : Running(u)}) <= run.workers

\* C9 witness: a pool of two workers runs two units while a third share waits.
C9_Witness ==
    /\ run.pc = "pool"
    /\ run.workers = 2
    /\ Cardinality({u \in RunUnits : Running(u)}) = 2
    /\ \E u \in RunUnits : unit[u].pc = "queued"

\* The terminal position the unit reaches by its own configuration entry and listing.
OwnTerminal(u) ==
    CASE config[u].kind = "disabled" -> unit[u].pc = "skipped"
      [] config[u].kind = "nofield" -> unit[u].pc = "raised"
      [] config[u].kind = "badurl" -> unit[u].pc = "failed"
      [] OTHER -> unit[u].pc \in {"done", "failed"}

\* C10: when monitor_all has ended, the unit of every configured share has
\* been started and has reached its own terminal state, whatever failed in
\* the other units.
C10_SiblingsStillRun == run.pc = "done" => \A u \in RunUnits : OwnTerminal(u)

\* C10 witness: sequential mode, the first unit raised, the second failed in
\* its link, the third ran to the end.
C10_Witness ==
    /\ run.pc = "done"
    /\ run.pos = 3
    /\ unit[1].pc = "raised"
    /\ unit[2].pc = "failed"
    /\ unit[3].pc = "done"

\* ------------------------------------------------ properties of sync_file
\* The sync_file call has ended (result returned or error raised).
SyncEnded == sync.pc \in {"returned", "raised"}

RECURSIVE SumSeq(_)
SumSeq(q) == IF q = <<>> THEN 0 ELSE q[1] + SumSeq(Tail(q))

\* C11: sync_file makes at most retries + 1 attempts, every iteration of its
\* loop makes one call of the save operation (the log of calls is as long as
\* the iterations begun), and a call that returns code 0 is the last one:
\* sync_file returns at once, and it returns only then.
C11_AtMostRetriesPlusOneAttempts ==
    /\ Len(sync.log) <= sync.retries + 1
    /\ sync.pc = "attempt" => Len(sync.log) = sync.attempt
    /\ sync.pc \in {"exhausted", "returned"} => Len(sync.log) = sync.attempt + 1
    /\ \A i \in DOMAIN sync.log : sync.log[i] = "code0" => (i = Len(sync.log) /\ sync.pc = "returned")
    /\ sync.pc = "returned" => (sync.log # <<>> /\ sync.log[Len(sync.log)] = "code0")

\* C11 witness: with retries = 2, two failed attempts and a third that returns
\* code 0: three calls, then the return.
C11_Witness ==
    /\ sync.via = "sync_file"
    /\ sync.retries = 2
    /\ sync.pc = "returned"
    /\ sync.log = <<"nonzero", "raise", "code0">>

\* C12 (as claimed): after every failed attempt but the last possible one,
\* whatever the kind of failure, sync_file waits attempt number * 2 seconds,
\* and it does not wait after the last attempt; with retries = 2 and two
\* failures followed by a success the waits add up to at least 6 seconds.
C12_BackoffAfterEveryFailure ==
    /\ \A i \in DOMAIN sync.waits : sync.waits[i] = IF i <= sync.retries THEN 2 * i ELSE 0
    /\ (sync.pc = "returned" /\ sync.retries = 2 /\ Len(sync.log) = 3) => SumSeq(sync.waits) >= 6

\* C13: when every attempt fails, sync_file raises its terminal error after
\* exactly retries + 1 attempts, and the error carries the detail of the last
\* attempt (its kind of failure), for every retries and every mix of failures.
C13_TerminalErrorAfterAllAttempts ==
    (sync.pc = "raised" /\ sync.error.type = "Exception") =>
        /\ Len(sync.log) = sync.retries + 1
        /\ \A i \in DOMAIN sync.log : sync.log[i] # "code0"
        /\ sync.error.attempts = sync.retries + 1
        /\ sync.error.detail = [kind |-> sync.log[Len(sync.log)], attempt |-> Len(sync.log)]

\* C13 witness: retries = 2, a raised error, then two results with another
\* code: the terminal error carries the third attempt's detail.
C13_Witness ==
    /\ sync.via = "sync_file"
    /\ sync.pc = "raised"
    /\ sync.retries = 2
    /\ sync.log = <<"raise", "nonzero", "nonzero">>
    /\ sync.error.detail = [kind |-> "nonzero", attempt |-> 3]

\* C14: a call without file_id or without share_id ends with a ValueError
\* before any attempt: no call of the save operation and no wait.
C14_ValidationBeforeAnyAttempt ==
    (sync.pc \notin {"idle", "check"} /\ (sync.file_id = "" \/ sync.share_id = "")) =>
        /\ sync.pc = "raised"
        /\ sync.error.type = "ValueError"
        /\ sync.log = <<>>
        /\ sync.waits = <<>>

\* C14 witness: share_id given, file_id empty, retries = 2: the call has raised.
C14_Witness ==
    /\ sync.pc = "raised"
    /\ sync.file_id = ""
    /\ sync.share_id = "s1"
    /\ sync.retries = 2
    /\ sync.error.type = "ValueError"

\* C15 (as claimed): a transfer started by a tick whose save operation fails
\* at every attempt is attempted sync.max_retries + 1 times.
C15_ConfiguredRetryBound ==
    (sync.via = "_transfer_file" /\ sync.pc = "raised") => Len(sync.log) = sync.max_retries + 1

\* --------------------------------------- properties of get_files_to_sync
\* The md5 the target list records for path p: that of its last entry with
\* that path.
KnownMd5(K, p) == K[CHOOSE j \in DOMAIN K : K[j].path = p /\ \A i \in DOMAIN K : K[i].path = p => i <= j].md5

\* A file-type entry that is new or changed with respect to K.
Changed(f, K) == f.type # 1 /\ ((\A j \in DOMAIN K : K[j].path # f.path) \/ f.md5 # KnownMd5(K, f.path))

RECURSIVE Expected(_, _)
\* The new or changed entries of S, in the order of S.
Expected(S, K) ==
    IF S = <<>> THEN <<>>
    ELSE (IF Changed(Head(S), K) THEN <<Head(S)>> ELSE <<>>) \o Expected(Tail(S), K)

\* C16 (as claimed): the result of get_files_to_sync, fed back as source and
\* as target, gives the empty list.
C16_Idempotent == cmp.pc = "done" => cmp.again = <<>>

\* C17: get_files_to_sync returns no entry of type 1 (folder), whatever the
\* source and target lists hold.
C17_NoDirectoryReturned == cmp.pc = "done" => \A i \in DOMAIN cmp.result : cmp.result[i].type # 1

\* C17 witness: the source holds a folder and a file, both unknown to the
\* target: only the file is returned.
C17_Witness ==
    /\ cmp.pc = "done"
    /\ cmp.target_files = <<>>
    /\ Len(cmp.source_files) = 2
    /\ cmp.source_files[1].type = 1
    /\ cmp.source_files[2].type = 0
    /\ cmp.result = <<cmp.source_files[2]>>

\* C18: get_files_to_sync(S, K) is exactly the file-type entries of S whose
\* path K does not hold or whose md5 differs from the one K records for the
\* path, in the order of S; an entry whose md5 is empty in S and in K is not
\* returned.
C18_ExactlyNewOrChanged ==
    cmp.pc = "done" =>
        /\ cmp.result = Expected(cmp.source_files, cmp.target_files)
        /\ \A i \in DOMAIN cmp.source_files :
              LET f == cmp.source_files[i] IN
              ((\E j \in DOMAIN cmp.target_files : cmp.target_files[j].path = f.path)
                  /\ f.md5 = "" /\ KnownMd5(cmp.target_files, f.path) = "")
              => \A r \in DOMAIN cmp.result : cmp.result[r] # f

\* C18 witness: path 1 has an empty md5 on both sides and is not returned,
\* path 2 has a new md5 and is returned.
C18_Witness ==
    /\ cmp.pc = "done"
    /\ Len(cmp.source_files) = 2 /\ Len(cmp.target_files) = 2
    /\ \A i \in 1..2 : cmp.source_files[i].path = i /\ cmp.target_files[i].path = i /\ cmp.source_files[i].type = 0
    /\ cmp.source_files[1].md5 = "" /\ cmp.target_files[1].md5 = ""
    /\ cmp.source_files[2].md5 = NewMd5 /\ cmp.target_files[2].md5 = ""
    /\ cmp.result = <<cmp.source_files[2]>>

\* ------------------------------------------- properties of the run record
\* C19 (as claimed): when a unit has processed every file of a non-empty
\* delta, the share's last_synced_files_count is the number of files whose
\* transfer succeeded in the tick, zero included.
C19_CountEqualsSuccesses ==
    \A u \in RunUnits :
        (unit[u].pc = "done" /\ unit[u].delta # <<>>) =>
            monitor_state[unit[u].key].last_synced_files_count = unit[u].success_count

\* C20 (as claimed): a unit whose delta is empty leaves files, last_sync_time
\* (its absence included) and last_synced_files_count of the share's record
\* as it read them.
C20_IdleTickKeepsRecord ==
    \A u \in Units :
        (unit[u].pc \in {"slock", "sdump", "done"} /\ unit[u].delta = <<>>) =>
            LET rec == monitor_state[unit[u].key] IN
            /\ rec.files = unit[u].snap.files
            /\ rec.last_sync_time = unit[u].snap.last_sync_time
            /\ rec.last_synced_files_count = unit[u].snap.last_synced_files_count

EndsInvocation(t) == sched.poll[t].pc = "inflight" /\ sched'.poll[t].pc # "inflight"

\* C22: a callable that raises never ends the polling loop.  A polling thread
\* of a scheduler that is not stopped stays alive at every step; at the end of
\* an invocation that raised it still holds the other jobs it collected and
\* goes on with them (or polls again), no entry is unregistered, and the entry
\* of the failing task has its full interval to run again.
C22_ErrorContained ==
    [][\A t \in PollThreads :
          /\ sched.poll[t].pc # "none" => sched'.poll[t].pc # "none"
          /\ (EndsInvocation(t) /\ sched.poll[t].raises) =>
                /\ sched'.poll[t].due = sched.poll[t].due
                /\ sched'.poll[t].pc = IF sched.poll[t].due = <<>> THEN "loop" ELSE "run"
                /\ sched'.running
                /\ sched'.jobs = sched.jobs
                /\ DOMAIN sched'.lib = DOMAIN sched.lib
                /\ \A i \in DOMAIN sched.lib :
                      sched'.lib[i] = IF sched.lib[i].job = sched.poll[t].cur.job
                                      THEN [sched.lib[i] EXCEPT !.left = sched.lib[i].interval]
                                      ELSE sched.lib[i]]_vars

\* After an invocation that raised, the same task and another task were invoked again.
C22_Witness ==
    \E i \in DOMAIN sched.task_history :
       /\ ~sched.task_history[i].success
       /\ \E j \in DOMAIN sched.task_history : j > i /\ sched.task_history[j].id = sched.task_history[i].id
       /\ \E k \in DOMAIN sched.task_history : k > i /\ sched.task_history[k].id # sched.task_history[i].id

\* The step is the return of an API call of caller c.
Returns(c, op) == sched'.calls[c] # sched.calls[c] /\ sched'.calls[c].pc = "idle" /\ sched'.calls[c].op = op

\* The entries of schedule.jobs behind the job_info dicts of an id.
JobsOf(S, id) == {i \in DOMAIN S.lib : \E k \in DOMAIN S.jobs : S.jobs[k].id = id /\ S.jobs[k].schedule_job = S.lib[i].job}

EmptyAfterStop ==
    (sched.calls[1].pc = "idle" /\ sched.calls[1].op = "stop" /\ sched.calls[1].result \in {"stopped", "timeout"}) =>
       sched.jobs = <<>> /\ sched.lib = <<>>

\* C24: update_task_interval is atomic towards the other threads.  No task id
\* ever has more than one job_info or more than one scheduled job, and no
\* update interleaved with a stop leaves an entry registered after the stop
\* returned (the second caller only updates, and an update begun after the
\* stop finds nothing to update).
C24_UpdateAtomic ==
    /\ \A id \in TaskIds : Count(sched.jobs, id) <= 1 /\ Count(sched.lib, id) <= 1
    /\ EmptyAfterStop

\* The step is the start of an invocation by polling thread t.
StartsInvocation(t) == sched.poll[t].pc = "run" /\ sched'.poll[t].pc = "inflight"

\* C25: after update_task_interval(id, n) returned at time t on a running
\* scheduler, the countdown of the task is n, and the task is next invoked
\* when that countdown has run out, not before: every invocation of the task
\* that starts while the update is the last call made is the invocation of the
\* registered entry with its countdown at 0.
C25_CountdownRestarts ==
    [][/\ (Returns(1, "update") /\ sched'.calls[1].result = "true") =>
             \A i \in JobsOf(sched', sched'.calls[1].id) : sched'.lib[i].left = sched'.calls[1].n
       /\ \A t \in PollThreads :
             (/\ StartsInvocation(t)
              /\ sched.running
              /\ sched.calls[1] = Returned("update", sched'.poll[t].cur.id, sched.calls[1].n, "true")) =>
                \E i \in DOMAIN sched.lib :
                   /\ sched.lib[i].job = sched'.poll[t].cur.job
                   /\ sched.lib[i].left = 0]_vars

\* C26: after TaskScheduler.stop() returned, no callable starts a new
\* invocation and no entry is registered; an invocation in flight is not
\* cancelled (it stays in flight until it ends by itself and is recorded).
C26_NothingStartsAfterStop ==
    [][/\ \A t \in PollThreads : StartsInvocation(t) => ~sched.stopped
       /\ (sched'.stopped /\ ~sched.stopped) => sched'.jobs = <<>> /\ sched'.lib = <<>>
       /\ \A t \in PollThreads :
             sched.poll[t].pc = "inflight" =>
                \/ sched'.poll[t].pc = "inflight" /\ sched'.poll[t].cur.id = sched.poll[t].cur.id
                \/ Len(sched'.task_history) = Len(sched.task_history) + 1]_vars

\* The scheduled jobs a polling thread has collected or is running.
Holds(S, t) == {S.poll[t].due[i].job : i \in DOMAIN S.poll[t].due} \cup (IF S.poll[t].pc = "inflight" THEN {S.poll[t].cur.job} ELSE {})

\* C27: after stop() followed by start(), also when the stop's join timed
\* out on an invocation in flight, one polling context is active and no task
\* id has two entries: the thread that collects due jobs is the thread of the
\* last start, no two threads hold the same due job, and every id has at most
\* one job_info.
C27_OnePollingContext ==
    [][/\ \A t \in PollThreads :
             (sched.poll[t].pc = "loop" /\ sched'.poll[t].pc = "run") => t = sched.thread
       /\ \A t \in PollThreads, u \in PollThreads :
             t # u => (Holds(sched', t) \cap Holds(sched', u)) \subseteq {0}
       /\ \A id \in TaskIds : Count(sched'.jobs, id) <= 1]_vars

\* C28: SchedulerManager.start() while running and SchedulerManager.stop()
\* while not running return at once and change nothing: the flags, the polling
\* threads, the registered entries, the task mapping and the monitor records
\* are those of before the call.
C28_RedundantStartStopNoOp ==
    [][/\ (Idle(1) /\ Returns(1, "start") /\ sched.mrunning) =>
             sched' = [sched EXCEPT !.calls[1] = Returned("start", "t1", 1, "noop")]
       /\ (Idle(1) /\ sched.calls[1] # sched'.calls[1] /\ sched'.calls[1].op = "stop" /\ ~sched.mrunning) =>
             sched' = [sched EXCEPT !.calls[1] = Returned("stop", "t1", 1, "noop")]]_vars

\* start() returned as a no-op on a running scheduler with a task registered,
\* a polling thread alive and an invocation recorded.
C28_Witness ==
    /\ sched.calls[1] = Returned("start", "t1", 1, "noop")
    /\ sched.running /\ sched.mrunning
    /\ AliveThreads = {sched.thread}
    /\ sched.jobs # <<>>
    /\ sched.task_mapping # {}
    /\ sched.task_history # <<>>

\* stop() returned as a no-op on a scheduler that is not running, with a task registered.
C28_WitnessStop ==
    /\ sched.calls[1] = Returned("stop", "t1", 1, "noop")
    /\ ~sched.running /\ ~sched.mrunning
    /\ sched.jobs # <<>>

\* Invocations collected and not ended yet.
Pending(S) ==
    LET n[t \in 0..Cardinality(PollThreads)] ==
           IF t = 0 THEN 0
           ELSE n[t - 1] + Len(S.poll[t].due) + (IF S.poll[t].pc = "inflight" THEN 1 ELSE 0)
    IN n[Cardinality(PollThreads)]

\* C29: every invocation of a task added through add_task is bracketed by the
\* monitor, also after update_task_interval replaced its entry.  The start of
\* an invocation sets the status of its id to running; its end sets it to
\* completed and appends exactly one record to the history, with success false
\* and an error message if and only if the callable raised; no other step
\* touches the history, so the records are as many as the invocations ended.
C29_InvocationsBracketed ==
    [][/\ \A t \in PollThreads :
             /\ StartsInvocation(t) => sched'.task_status[sched'.poll[t].cur.id] = "running"
             /\ EndsInvocation(t) =>
                   /\ sched'.task_status[sched.poll[t].cur.id] = "completed"
                   /\ sched'.task_history =
                         Append(sched.task_history,
                                [id |-> sched.poll[t].cur.id,
                                 success |-> ~sched.poll[t].raises,
                                 error |-> IF sched.poll[t].raises THEN "e" ELSE "", details |-> {}])
       /\ (\A t \in PollThreads : ~EndsInvocation(t)) => sched'.task_history = sched.task_history
       /\ Len(sched'.task_history) + Pending(sched') = sched'.fired]_vars

\* An earlier invocation is recorded, the interval of the task was then
\* updated, and the entry the update registered is being invoked: the status
\* is running (the Job objects of removed entries are job 0, so a job found in
\* schedule.jobs after the update is the one the update built).
C29_Witness ==
    /\ sched.task_history # <<>>
    /\ sched.calls[1] = Returned("update", "t1", 2, "true")
    /\ sched.task_status["t1"] = "running"
    /\ \E t \in PollThreads :
          /\ sched.poll[t].pc = "inflight"
          /\ sched.poll[t].raises
          /\ \E i \in DOMAIN sched.lib : sched.lib[i].job = sched.poll[t].cur.job

\* A reload of the configuration is in progress in this step or returns in it.
Reloading ==
    \/ sched.calls[1].op = "reload" /\ sched.calls[1].pc # "idle"
    \/ sched'.calls[1] # sched.calls[1] /\ sched'.calls[1].op = "reload"

\* C30: a reload with the scheduler running gives 'monitor_all_shares' the
\* new interval and leaves the scheduler running throughout.  In every step
\* from the call to its return the two running flags stay true, the polling
\* thread is the same and alive; at the return one entry is registered for the
\* task, with the new interval.
C30_ReloadKeepsSchedulerRunning ==
    [][(Reloading /\ sched.mrunning) =>
          /\ sched.running /\ sched'.running /\ sched'.mrunning
          /\ sched'.thread = sched.thread
          /\ sched.thread \in AliveThreads
          /\ sched'.poll[sched.thread].pc # "none"
          /\ (Returns(1, "reload") /\ sched'.calls[1].result = "true") =>
                /\ Count(sched'.jobs, "t1") = 1
                /\ Count(sched'.lib, "t1") = 1
                /\ sched'.jobs[IdxOf(sched'.jobs, "t1")].interval = sched'.calls[1].n
                /\ \A i \in JobsOf(sched', "t1") : sched'.lib[i].interval = sched'.calls[1].n
          /\ (Returns(1, "reload") /\ Count(sched.jobs, "t1") = 1) => sched'.calls[1].result = "true"]_vars

\* A reload returned on a running scheduler whose task had been invoked: the
\* task has the new interval and the polling thread is alive.
C30_Witness ==
    /\ sched.calls[1] = Returned("reload", "t1", 2, "true")
    /\ sched.running /\ sched.mrunning
    /\ sched.thread \in AliveThreads
    /\ Count(sched.jobs, "t1") = 1
    /\ sched.jobs[1].interval = 2
    /\ sched.task_history # <<>>

\* ------------------------------ the scheduled tick (main.py 386-419)
\* Scheduled ticks followed in one behaviour, unit by unit.
MaxTickFires == 1

\* start_scheduled_monitoring, lines 390-412: nothing when the manager is
\* running; otherwise 'monitor_all_shares' is registered with monitor_task
\* as its callable.
start_scheduled_monitoring_add ==
    /\ ~sched.mrunning
    /\ sched.calls[1].op = "none"
    /\ add_task(1, {"t1"})

\* start_scheduled_monitoring, line 415: scheduler_manager.start().
start_scheduled_monitoring_start ==
    /\ sched.calls[1].op = "add"
    /\ manager_start(1)

\* schedule.run_pending runs the job of 'monitor_all_shares': monitored_task
\* (manager.py 63-66) records the start, then calls monitor_task (main.py
\* 399-401), which calls monitor_all.
monitor_task_begin(t) ==
    /\ sched.poll[t].pc = "run"
    /\ Head(sched.poll[t].due).id = "t1"
    /\ run.pc = "idle"
    /\ LET j == Head(sched.poll[t].due)
       IN sched' = [start_task(sched, j.id) EXCEPT
                       !.poll[t].pc = "inflight", !.poll[t].cur = j,
                       !.poll[t].due = Tail(sched.poll[t].due),
                       !.poll[t].raises = FALSE]
    /\ UNCHANGED <<ctl, mon, tickVars, sync, cmp>>

\* The monitor_all of the scheduled tick begins.
scheduled_monitor_all_start ==
    /\ \E t \in PollThreads : sched.poll[t].pc = "inflight" /\ sched.poll[t].cur.id = "t1"
    /\ monitor_all_start

\* What monitored_task sees of monitor_task: monitor_all has caught the error
\* of every share (lines 367-368 and 383-384) and returned None, and
\* monitor_task catches every Exception itself (lines 402-404) and returns
\* None: nothing is raised and nothing is returned, whatever the units did.
monitor_task_raised(units) == FALSE

\* monitor_all returned: monitor_task returns, monitored_task records the
\* completion (manager.py 68-88), job.run sets next_run of the Job object to
\* now + interval.
monitor_task_end(t) ==
    /\ sched.poll[t].pc = "inflight"
    /\ sched.poll[t].cur.id = "t1"
    /\ run.pc = "done"
    /\ LET j == sched.poll[t].cur
           raised == monitor_task_raised(unit)
       IN sched' = [complete_task(sched, j.id, ~raised) EXCEPT
                          !.lib = [i \in DOMAIN sched.lib |-> IF sched.lib[i].job = j.job
                                                           THEN [sched.lib[i] EXCEPT !.left = sched.lib[i].interval]
                                                           ELSE sched.lib[i]],
                          !.poll[t] = task_wrapper(sched.poll[t], raised)]
    /\ run' = [pc |-> "idle", workers |-> 0, pos |-> 0]
    /\ UNCHANGED <<ctl, mon, sync, cmp, config, monitor_state, state_file, lock, unit, crashSnap>>

\* The service started on any configuration; the scheduled tick is followed
\* step by step (the immediate run of line 419 is another execution of
\* monitor_all and leaves the Task Monitor alone).
NextTick ==
    \/ start_scheduled_monitoring_add
    \/ start_scheduled_monitoring_start
    \/ \E t \in PollThreads : run_pending(t, MaxTickFires)
    \/ \E t \in PollThreads : monitor_task_begin(t)
    \/ scheduled_monitor_all_start
    \/ UnitSteps
    \/ \E t \in PollThreads : monitor_task_end(t)
    \/ second

SpecTick == Init /\ [][NextTick]_vars

\* The record complete_task appended last.
LastRecord(S) == S.task_history[Len(S.task_history)]

\* A unit of the tick left _monitor_share_link with an exception (an entry
\* without url or target_folder_id: KeyError at lines 253-254).
TickRaised == \E u \in RunUnits : unit[u].pc = "raised"

\* C31: when a malformed configuration entry made a unit of the scheduled tick
\* raise, the record the Task Monitor appends for that tick has outcome
\* Failure and an error message.
C31_MalformedEntryRecordedAsFailure ==
    [][\A t \in PollThreads :
          (EndsInvocation(t) /\ TickRaised) =>
             /\ ~LastRecord(sched').success
             /\ LastRecord(sched').error # ""]_vars

\* A unit of the tick failed to list its share, or a transfer of the tick failed.
TickHadFailure ==
    \E u \in RunUnits :
       \/ unit[u].pc = "failed"
       \/ \E i \in DOMAIN unit[u].outcomes : unit[u].outcomes[i] = "fail"

\* C32: no failure is silent.  When a transfer or a listing of the scheduled
\* tick failed, the record the Task Monitor appends for that tick shows it: by
\* its outcome, its error message or its details.
C32_NoSilentFailure ==
    [][\A t \in PollThreads :
          (EndsInvocation(t) /\ TickHadFailure) =>
             \/ ~LastRecord(sched').success
             \/ LastRecord(sched').error # ""
             \/ LastRecord(sched').details # {}]_vars

\* --------------------------- the immediate run (main.py 419) and the ticks
\* start_scheduled_monitoring, line 419: once the scheduler is started,
\* monitor_all runs at once on the calling thread.
immediate_monitor_all ==
    /\ sched.calls[1].op = "start"
    /\ monitor_all_start

\* The polling thread invokes 'monitor_all_shares' (the execution of
\* monitor_all it runs is not followed further; monitor_task does not raise).
scheduled_tick_begin(t) ==
    /\ job_run(t)
    /\ ~sched'.poll[t].raises

\* The service starts on any configuration: the immediate run is followed
\* unit by unit on the calling thread, beside the polling thread.
NextStartup ==
    \/ start_scheduled_monitoring_add
    \/ start_scheduled_monitoring_start
    \/ immediate_monitor_all
    \/ UnitSteps
    \/ \E t \in PollThreads : run_pending(t, MaxTickFires)
    \/ \E t \in PollThreads : scheduled_tick_begin(t)
    \/ \E t \in PollThreads : job_end(t)
    \/ second

SpecStartup == Init /\ [][NextStartup]_vars

\* C39: no two executions of monitor_all overlap.  While the immediate run
\* of the start is in progress, no scheduled invocation of
\* 'monitor_all_shares' is in flight.
C39_NoOverlappingRuns ==
    ~ /\ run.pc \in {"seq", "pool"}
      /\ \E t \in PollThreads : sched.poll[t].pc = "inflight" /\ sched.poll[t].cur.id = "t1"

\* ------------------------------------ TaskMonitor (scheduler/monitor.py)
\* Completions followed in one behaviour of the monitor's API.
MaxCompletions == 2

\* The largest limit passed to get_recent_history.
MaxLimit == 3

\* d.update(e) on dicts.
DictUpdate(d, e) == [k \in DetailKeys |-> IF e[k] # "none" THEN e[k] ELSE d[k]]

\* task_status[id]['details'].update(e) as the history sees it: the records
\* whose details dict is that same object change with it.
UpdateShared(h, id, e) ==
    [i \in DOMAIN h |-> IF h[i].task_id = id /\ h[i].shared THEN [h[i] EXCEPT !.details = DictUpdate(@, e)] ELSE h[i]]

\* task_status[id] is bound to a new dict: the records that shared the details
\* of the old one are on their own.
Unshare(h, id) == [i \in DOMAIN h |-> IF h[i].task_id = id THEN [h[i] EXCEPT !.shared = FALSE] ELSE h[i]]

\* Mutant of Evict: the newest record is dropped instead of the oldest.
Evict_Newest(h) == IF Len(h) > HistoryCap THEN SubSeq(h, 1, Len(h) - 1) ELSE h

\* complete_task, lines 75-76: if len(task_history) > 1000: task_history.pop(0).
Evict(h) == IF Len(h) > HistoryCap THEN Tail(h) ELSE h

\* Python's l[start:].
SliceFrom(l, start) ==
    LET n == Len(l)
        from == IF start < 0 THEN (IF n + start < 0 THEN 0 ELSE n + start) ELSE (IF start > n THEN n ELSE start)
    IN SubSeq(l, from + 1, n)

\* Mutant of get_recent_history: a limit of 0 is served with the empty list.
get_recent_history_ZeroEmpty(h, limit) == IF limit = 0 THEN <<>> ELSE SliceFrom(h, 0 - limit)

\* TaskMonitor.get_recent_history: task_history[-limit:].
get_recent_history(h, limit) == SliceFrom(h, 0 - limit)

\* TaskMonitor.start_task: task_status[id] is a new dict with status
\* 'running' and an empty details dict.
start_task_call(ids) ==
    /\ \E id \in ids :
          mon' = [mon EXCEPT !.task_status[id] = [status |-> "running", success |-> "none", error |-> "", details |-> EmptyDetails],
                             !.task_history = Unshare(@, id),
                             !.query = NoQuery]
    /\ UNCHANGED <<ctl, tickVars, sync, cmp, sched>>

\* TaskMonitor.update_task: the details dict of a known task is updated in place.
update_task_call(ids) ==
    /\ \E id \in ids, d \in Payloads \ {EmptyDetails} :
          /\ mon.task_status[id].status # "none"
          /\ mon' = [mon EXCEPT !.task_status[id].details = DictUpdate(@, d),
                                !.task_history = UpdateShared(@, id, d),
                                !.query = NoQuery]
    /\ UNCHANGED <<ctl, tickVars, sync, cmp, sched>>

\* TaskMonitor.complete_task for a known task: the status dict is updated in
\* place (details only when the argument is not empty), its shallow copy is
\* appended to the history, and the history is cut to its bound.  error is
\* given with a failure.
complete_task_call(ids, outcomes, payloads, cap) ==
    /\ mon.now < cap
    /\ \E id \in ids, success \in outcomes, d \in payloads :
          /\ mon.task_status[id].status # "none"
          /\ LET error == IF success THEN "" ELSE "e"
                 details == IF d # EmptyDetails THEN DictUpdate(mon.task_status[id].details, d) ELSE mon.task_status[id].details
                 h == IF d # EmptyDetails THEN UpdateShared(mon.task_history, id, d) ELSE mon.task_history
                 task_info == [task_id |-> id, end_time |-> mon.now + 1, success |-> success, error |-> error,
                               details |-> details, shared |-> TRUE, final |-> details]
             IN mon' = [mon EXCEPT !.task_status[id] = [status |-> "completed", success |-> success, error |-> error, details |-> details],
                                   !.task_history = Evict(Append(h, task_info)),
                                   !.now = @ + 1,
                                   !.query = NoQuery]
    /\ UNCHANGED <<ctl, tickVars, sync, cmp, sched>>

\* TaskMonitor.get_recent_history(limit), as SchedulerManager.get_recent_history passes it on.
get_recent_history_call ==
    /\ \E limit \in 0..MaxLimit :
          mon' = [mon EXCEPT !.query = [limit |-> limit, result |-> get_recent_history(mon.task_history, limit)]]
    /\ UNCHANGED <<ctl, tickVars, sync, cmp, sched>>

\* The API of one TaskMonitor, called in any order.
InitMonitor ==
    /\ TickInit(SingleConfigs)
    /\ monitor_state = EmptyState
    /\ sync = NoSync
    /\ cmp = NoCmp
    /\ sched = NoSched
    /\ \E max \in ConfiguredMax : mon = NoMon(max)
    /\ ctl = NoCtl(config)

NextMonitor ==
    \/ start_task_call(TaskIds)
    \/ update_task_call(TaskIds)
    \/ complete_task_call(TaskIds, BOOLEAN, Payloads, MaxCompletions)
    \/ get_recent_history_call

SpecMonitor == InitMonitor /\ [][NextMonitor]_vars

\* monitored_task (manager.py 63-66): the invocation of a task begins.
monitored_task_start ==
    /\ mon.task_status["t1"].status # "running"
    /\ start_task_call({"t1"})

\* monitored_task (manager.py 68-88): the callable returned nothing, the
\* invocation is recorded.
monitored_task_complete ==
    /\ mon.task_status["t1"].status = "running"
    /\ complete_task_call({"t1"}, {TRUE}, {EmptyDetails}, HistoryCap + 2)

\* One task invoked again and again, until the history is full and beyond.
NextHistory == monitored_task_start \/ monitored_task_complete

SpecHistory == InitMonitor /\ [][NextHistory]_vars

\* C33: the history never holds more records than the configured maximum
\* (scheduler.max_history), and its records are in completion order.
C33_HistoryWithinConfiguredMax ==
    /\ Len(mon.task_history) <= mon.max_history
    /\ \A i, j \in DOMAIN mon.task_history : i < j => mon.task_history[i].end_time < mon.task_history[j].end_time

\* What complete_task does keep: at most HistoryCap records, the most recent
\* ones, in completion order.
HistoryCappedInOrder ==
    LET h == mon.task_history
    IN /\ Len(h) <= HistoryCap
       /\ Len(h) = (IF mon.now > HistoryCap THEN HistoryCap ELSE mon.now)
       /\ \A i \in DOMAIN h : h[i].end_time = mon.now - Len(h) + i

\* The history is full and a record has been evicted.
HistoryEvicted == mon.now > HistoryCap /\ Len(mon.task_history) = HistoryCap

\* C34: a record is never changed after complete_task appended it: every
\* record of the history has the details it was appended with.
C34_FinalizedRecordImmutable ==
    \A i \in DOMAIN mon.task_history : mon.task_history[i].details = mon.task_history[i].final

\* The last n elements of a sequence (all of them when it is shorter).
LastN(l, n) == IF n >= Len(l) THEN l ELSE SubSeq(l, Len(l) - n + 1, Len(l))

\* C40: get_recent_history(limit) returns at most limit records, the limit
\* most recently completed ones in completion order, for every limit >= 0.
C40_RecentHistoryAtMostLimit ==
    mon.query.limit >= 0 =>
        /\ Len(mon.query.result) <= mon.query.limit
        /\ mon.query.result = LastN(mon.task_history, mon.query.limit)

\* For a limit of at least 1 the result is the limit most recent records.
RecentHistoryPositiveLimit ==
    mon.query.limit >= 1 =>
        /\ Len(mon.query.result) <= mon.query.limit
        /\ mon.query.result = LastN(mon.task_history, mon.query.limit)

\* ------------------------------------------ control plane (app.py, main.py)
\* The monitored_shares lists a configuration update can carry.
UpdateConfigs == {<<>>, <<ShareConfig(AllShares[1], "ok")>>, <<ShareConfig(AllShares[2], "ok")>>}

\* update_config, lines 194-217: the share keys of the entries whose url
\* matches the link pattern (an entry without url has url '').
CurrentKeys(cfg) == {cfg[i].key : i \in {j \in DOMAIN cfg : cfg[j].kind \in {"ok", "disabled"}}}

\* update_config, lines 219-221: the records of the other keys are deleted.
Cleaned(state, cfg) == [k \in Shares |-> IF k \in CurrentKeys(cfg) THEN state[k] ELSE NoRecord]

\* update_config, lines 161-180: the merged configuration is written to conf/config.yaml.
update_config_write ==
    /\ ctl.pc = "idle"
    /\ \E new \in UpdateConfigs : ctl' = [ctl EXCEPT !.pc = "read", !.config_file = new]
    /\ UNCHANGED <<tickVars, sync, cmp, sched, mon>>

\* update_config, lines 187-190: the state file is read (without the
\* monitor's lock); a file that does not parse ends the request with an error
\* (lines 235-238) before any reload.
update_config_read ==
    /\ ctl.pc = "read"
    /\ ctl' = IF state_file.ok THEN [ctl EXCEPT !.pc = "clean", !.state = state_file.data]
                               ELSE [ctl EXCEPT !.pc = "idle", !.last = "error"]
    /\ UNCHANGED <<tickVars, sync, cmp, sched, mon>>

\* update_config, lines 192-226: the records of the shares no longer
\* configured are deleted and the state file is rewritten.
update_config_clean ==
    /\ ctl.pc = "clean"
    /\ state_file' = [ok |-> TRUE, data |-> Cleaned(ctl.state, ctl.config_file)]
    /\ ctl' = [ctl EXCEPT !.pc = "reload", !.state = EmptyState]
    /\ UNCHANGED <<sync, cmp, sched, mon, config, monitor_state, lock, run, unit, crashSnap>>

\* update_config, lines 229-233: monitor_instance.reload_config().
update_config_reload ==
    /\ ctl.pc = "reload"
    /\ config' = ctl.config_file
    /\ monitor_state' = load_monitor_state(state_file)
    /\ ctl' = [ctl EXCEPT !.pc = "idle", !.last = "updated"]
    /\ UNCHANGED <<sync, cmp, sched, mon, state_file, lock, run, unit, crashSnap>>

\* Cloud123Monitor.remove_monitored_share, lines 470-510: self.config is the
\* dict ConfigManager loaded (line 44), which has no set method: line 475 raises
\* AttributeError, the handler of lines 509-510 logs it, and neither the
\* configuration nor the state is touched; no share key is derived.
remove_monitored_share ==
    /\ ctl.pc = "idle"
    /\ ctl' = [ctl EXCEPT !.last = "remove_error", !.done = @ \cup {"remove"}]
    /\ UNCHANGED <<tickVars, sync, cmp, sched, mon>>

\* The steps of the thread check_single_share started.
ManualSteps ==
    \/ \E u \in ManualUnits : get_file_list(u)
    \/ \E u \in ManualUnits : read_state(u)
    \/ \E u \in ManualUnits : diff(u)
    \/ \E u \in ManualUnits : transfer_file_begin(u)
    \/ \E u \in ManualUnits : transfer_file_end(u)
    \/ \E u \in ManualUnits : write_state(u)
    \/ \E u \in ManualUnits : idle_write(u)
    \/ \E u \in ManualUnits : save_monitor_state_open(u)
    \/ \E u \in ManualUnits : save_monitor_state_dump(u)

\* The service between two ticks: shares are checked on request, the
\* configuration is updated, shares are removed.
NextConfig ==
    \/ check_single_share
    \/ ManualSteps
    \/ update_config_write
    \/ update_config_read
    \/ update_config_clean
    \/ update_config_reload
    \/ remove_monitored_share

SpecConfig == InitService /\ [][NextConfig]_vars

\* The configuration, in memory and on disk, has no entry for share k, and no
\* update is in progress.
Deleted(k) ==
    /\ ctl.pc = "idle"
    /\ \A i \in DOMAIN config : config[i].key # k
    /\ \A i \in DOMAIN ctl.config_file : ctl.config_file[i].key # k

\* C35: after a ShareConfig is deleted, the run state holds no record for its
\* share key, in memory or persisted.
C35_DeletedShareHasNoRecord ==
    \A k \in Shares :
       Deleted(k) =>
          /\ ~monitor_state[k].present
          /\ state_file.ok => ~state_file.data[k].present

\* ------------------------------------------------ share key derivation
\* None and '' are false in a condition.
Falsy(x) == x \in {"none", ""}

\* re.search(r'https?://([^/]+)/s/([^?/]+)', url) finds a match.
LinkMatch(url) == url.scheme = "https" /\ url.share_id # ""

\* re.search(r'pwd=([^&#]+)', url): the value of the first pwd parameter that
\* has one, None ("none") without such a parameter.
PwdOf(url) ==
    LET hits == {i \in DOMAIN url.query : url.query[i].name = "pwd" /\ url.query[i].value # ""}
    IN IF hits = {} THEN "none" ELSE url.query[CHOOSE i \in hits : \A j \in hits : i <= j].value

\* Mutant of generate_share_key: the secret is left out of the key.
generate_share_key_IdOnly(share_id, share_pwd) == [share_id |-> share_id, secret |-> "no_pwd"]

\* _generate_share_key: f"{share_id}_{share_pwd or 'no_pwd'}".
generate_share_key(share_id, share_pwd) == [share_id |-> share_id, secret |-> IF Falsy(share_pwd) THEN "no_pwd" ELSE share_pwd]

\* Mutant of tick_share_key: the extraction code of the address comes first.
tick_share_key_LinkFirst(e) ==
    LET user_password == IF e.password = "absent" THEN "none" ELSE e.password
        link_pwd == PwdOf(e.url)
        final_pwd == IF ~Falsy(link_pwd) THEN link_pwd ELSE user_password
    IN generate_share_key(e.url.share_id, final_pwd)

\* _monitor_share_link, lines 259-270: parse_share_link, share_config.get("password"),
\* final_pwd = user_password if user_password else link_pwd, _generate_share_key.
tick_share_key(e) ==
    LET user_password == IF e.password = "absent" THEN "none" ELSE e.password
        link_pwd == PwdOf(e.url)
        final_pwd == IF ~Falsy(user_password) THEN user_password ELSE link_pwd
    IN generate_share_key(e.url.share_id, final_pwd)

\* update_config, lines 203-217: share.get('password', ''), the same choice,
\* f"{share_id}_{final_password or 'no_pwd'}".
cleanup_share_key(e) ==
    LET user_password == IF e.password = "absent" THEN "" ELSE e.password
        url_password == PwdOf(e.url)
        final_password == IF ~Falsy(user_password) THEN user_password ELSE url_password
    IN [share_id |-> e.url.share_id, secret |-> IF Falsy(final_password) THEN "no_pwd" ELSE final_password]

\* _monitor_share_link reaches line 270 for the entry: the key, or none when
\* parse_share_link raised ShareLinkError.
monitor_share_link_key ==
    /\ "tick" \notin ctl.done
    /\ ctl.share # NoEntry
    /\ ctl' = [ctl EXCEPT !.keys["tick"] = IF LinkMatch(ctl.share.url) THEN tick_share_key(ctl.share) ELSE NoKey,
                          !.done = @ \cup {"tick"}]
    /\ UNCHANGED <<tickVars, sync, cmp, sched, mon>>

\* update_config reaches lines 194-217 for the entry: the key added to
\* current_share_keys, or none when the address does not match.
update_config_key ==
    /\ "cleanup" \notin ctl.done
    /\ ctl.share # NoEntry
    /\ ctl' = [ctl EXCEPT !.keys["cleanup"] = IF LinkMatch(ctl.share.url) THEN cleanup_share_key(ctl.share) ELSE NoKey,
                          !.done = @ \cup {"cleanup"}]
    /\ UNCHANGED <<tickVars, sync, cmp, sched, mon>>

\* One configuration entry, given to the tick, to the removal and to the
\* clean-up of a configuration update.
InitKey ==
    /\ TickInit(SingleConfigs)
    /\ monitor_state = EmptyState
    /\ sync = NoSync
    /\ cmp = NoCmp
    /\ sched = NoSched
    /\ mon = NoMon(HistoryCap)
    /\ \E e \in Entries \ {NoEntry} : ctl = [NoCtl(config) EXCEPT !.share = e]

NextKey == monitor_share_link_key \/ update_config_key \/ remove_monitored_share

SpecKey == InitKey /\ [][NextKey]_vars

\* The share key of an entry as the claim words it: the configured secret when
\* one is set, otherwise the extraction code of the address, otherwise 'no_pwd'.
ExpectedKey(e) ==
    [share_id |-> e.url.share_id,
     secret |-> IF e.password \notin {"absent", ""} THEN e.password
                ELSE IF PwdOf(e.url) # "none" THEN PwdOf(e.url)
                ELSE "no_pwd"]

\* C36: the tick, the share removal and the configuration clean-up derive the
\* same share key for the same entry: "{identifier}_{secret}", the secret being
\* the configured one, else the one of the address, else 'no_pwd'.
C36_SameShareKeyEverywhere ==
    (ctl.done = Sites /\ LinkMatch(ctl.share.url)) =>
        \A x \in Sites : ctl.keys[x] = ExpectedKey(ctl.share)

\* The tick and the clean-up derive the key the claim describes.
TickAndCleanupKeysAgree ==
    (LinkMatch(ctl.share.url) /\ {"tick", "cleanup"} \subseteq ctl.done) =>
        /\ ctl.keys["tick"] = ExpectedKey(ctl.share)
        /\ ctl.keys["cleanup"] = ExpectedKey(ctl.share)

\* C37: a reload during a tick never loses an entry the tick has committed.
\* Once the tick has finished (reload_config is one step, and no other thread
\* has worked on the state), every file the tick transferred is in the
\* in-memory aggregate and in the persisted state.
C37_ReloadKeepsCommittedFiles ==
    (run.pc = "done" /\ \A m \in ManualUnits : unit[m].pc = "none") =>
        \A u \in RunUnits : \A f \in Succeeded(unit[u]) :
            /\ Recorded(monitor_state[unit[u].key].files, f)
            /\ Recorded(Persisted[unit[u].key].files, f)

\* ----------------------------------------------- ticks on a fixed listing
\* The remote service returns the listing under study.
get_file_list_fixed(u) == get_file_list_of(u, cmp.source_files)

\* _transfer_file returns: the transfer succeeded.
transfer_file_ok(u) ==
    /\ transfer_file_end(u)
    /\ unit'[u].outcomes # unit[u].outcomes
    /\ unit'[u].outcomes[Len(unit'[u].outcomes)] = "ok"

\* One share whose listing, any list of descriptors, stays the same from tick
\* to tick; nothing is recorded for it at the start.
InitConverge ==
    /\ TickInit(SingleConfigs)
    /\ monitor_state = EmptyState
    /\ sync = NoSync
    /\ sched = NoSched
    /\ mon = NoMon(HistoryCap)
    /\ ctl = NoCtl(config)
    /\ \E S \in CmpLists : cmp = [NoCmp EXCEPT !.source_files = S]

\* Tick after tick on that share, every transfer succeeding.
NextConverge ==
    \/ monitor_all_start
    \/ \E u \in Units : monitor_share_link(u)
    \/ \E u \in Units : get_file_list_fixed(u)
    \/ \E u \in Units : read_state(u)
    \/ \E u \in Units : diff(u)
    \/ \E u \in Units : transfer_file_begin(u)
    \/ \E u \in Units : transfer_file_ok(u)
    \/ \E u \in Units : write_state(u)
    \/ \E u \in Units : idle_write(u)
    \/ \E u \in Units : save_monitor_state_open(u)
    \/ \E u \in Units : save_monitor_state_dump(u)
    \/ seq_advance
    \/ pool_join
    \/ monitor_all_return

SpecConverge == InitConverge /\ [][NextConverge]_vars

\* C38: monitoring converges.  A unit that found a record for its share (an
\* earlier tick on the same listing ended, all its transfers succeeded)
\* computes an empty delta.
C38_Converges ==
    \A u \in RunUnits :
       (unit[u].pc \in DeltaKnown /\ unit[u].snap.present) => unit[u].delta = <<>>

\* The same for the listings in which no path occurs twice.
DistinctPaths(l) == \A i, j \in DOMAIN l : l[i].path = l[j].path => i = j

ConvergesOnDistinctPaths ==
    \A u \in RunUnits :
       (unit[u].pc \in DeltaKnown /\ unit[u].snap.present /\ DistinctPaths(cmp.source_files)) => unit[u].delta = <<>>

====
